---- MODULE Spec2Model ----
(***************************************************************************)
(* cloud-counter: the discovery dedup cache, the region configuration,     *)
(* the retry executor and the multi-region aggregator, as state machines.  *)
(*                                                                         *)
(* Strings stay strings in the state; Chars(s) spells a string as its      *)
(* characters wherever the code looks inside one (includes, toLowerCase,   *)
(* the region pattern).  Calendar dates (YYYY-MM-DD, UTC) are day numbers, *)
(* money is counted in hundredths of a dollar.                             *)
(***************************************************************************)
EXTENDS Naturals, Integers, Sequences, FiniteSets, TLC

----------------------------------------------------------------------------
(* Bounds of the model *)

MaxDay == 2
MaxRequestCount == 3
MaxBilledPerDay == 2
MaxExecTime == 1
MaxRetriesBound == 3
MaxRegions == 2
MaxPieces == 2

----------------------------------------------------------------------------
(* Program constants *)

DefaultMaxRetries == 3
DefaultBaseDelay == 1000
DefaultMaxDelay == 10000
DefaultBackoffMultiplier == 2
DetectorMaxRetries == 2
DetectorBaseDelay == 1000
DetectorMaxDelay == 5000
CostPerCall == 1

----------------------------------------------------------------------------
(* Strings *)

(* A string as the sequence of its characters *)
Chars(s) ==
    CASE s = "Temporary failure" -> <<"T", "e", "m", "p", "o", "r", "a", "r", "y", " ", "f", "a", "i", "l", "u", "r", "e">>
      [] s = "Rate exceeded" -> <<"R", "a", "t", "e", " ", "e", "x", "c", "e", "e", "d", "e", "d">>
      [] s = "Access Denied" -> <<"A", "c", "c", "e", "s", "s", " ", "D", "e", "n", "i", "e", "d">>
      [] s = "Request timed out" -> <<"R", "e", "q", "u", "e", "s", "t", " ", "t", "i", "m", "e", "d", " ", "o", "u", "t">>
      [] s = "EC2 request failed" -> <<"E", "C", "2", " ", "r", "e", "q", "u", "e", "s", "t", " ", "f", "a", "i", "l", "e", "d">>
      [] s = "Lambda request failed" -> <<"L", "a", "m", "b", "d", "a", " ", "r", "e", "q", "u", "e", "s", "t", " ", "f", "a", "i", "l", "e", "d">>
      [] s = "The region invalid-region is not supported" -> <<"T", "h", "e", " ", "r", "e", "g", "i", "o", "n", " ", "i", "n", "v", "a", "l", "i", "d", "-", "r", "e", "g", "i", "o", "n", " ", "i", "s", " ", "n", "o", "t", " ", "s", "u", "p", "p", "o", "r", "t", "e", "d">>
      [] s = "Invalid region specified" -> <<"I", "n", "v", "a", "l", "i", "d", " ", "r", "e", "g", "i", "o", "n", " ", "s", "p", "e", "c", "i", "f", "i", "e", "d">>
      [] s = "You are not authorized to perform this operation." -> <<"Y", "o", "u", " ", "a", "r", "e", " ", "n", "o", "t", " ", "a", "u", "t", "h", "o", "r", "i", "z", "e", "d", " ", "t", "o", " ", "p", "e", "r", "f", "o", "r", "m", " ", "t", "h", "i", "s", " ", "o", "p", "e", "r", "a", "t", "i", "o", "n", ".">>
      [] s = "EACCES: permission denied, open '.env.local'" -> <<"E", "A", "C", "C", "E", "S", ":", " ", "p", "e", "r", "m", "i", "s", "s", "i", "o", "n", " ", "d", "e", "n", "i", "e", "d", ",", " ", "o", "p", "e", "n", " ", "'", ".", "e", "n", "v", ".", "l", "o", "c", "a", "l", "'">>
      [] s = "ENOSPC: no space left on device, write" -> <<"E", "N", "O", "S", "P", "C", ":", " ", "n", "o", " ", "s", "p", "a", "c", "e", " ", "l", "e", "f", "t", " ", "o", "n", " ", "d", "e", "v", "i", "c", "e", ",", " ", "w", "r", "i", "t", "e">>
      [] s = "EACCES: permission denied, open 'data/cost-cache.json'" -> <<"E", "A", "C", "C", "E", "S", ":", " ", "p", "e", "r", "m", "i", "s", "s", "i", "o", "n", " ", "d", "e", "n", "i", "e", "d", ",", " ", "o", "p", "e", "n", " ", "'", "d", "a", "t", "a", "/", "c", "o", "s", "t", "-", "c", "a", "c", "h", "e", ".", "j", "s", "o", "n", "'">>
      [] s = "EACCES: permission denied, open 'data/region-discovery-cache.json'" -> <<"E", "A", "C", "C", "E", "S", ":", " ", "p", "e", "r", "m", "i", "s", "s", "i", "o", "n", " ", "d", "e", "n", "i", "e", "d", ",", " ", "o", "p", "e", "n", " ", "'", "d", "a", "t", "a", "/", "r", "e", "g", "i", "o", "n", "-", "d", "i", "s", "c", "o", "v", "e", "r", "y", "-", "c", "a", "c", "h", "e", ".", "j", "s", "o", "n", "'">>
      [] s = "ENOENT: no such file or directory, open '.env.local'" -> <<"E", "N", "O", "E", "N", "T", ":", " ", "n", "o", " ", "s", "u", "c", "h", " ", "f", "i", "l", "e", " ", "o", "r", " ", "d", "i", "r", "e", "c", "t", "o", "r", "y", ",", " ", "o", "p", "e", "n", " ", "'", ".", "e", "n", "v", ".", "l", "o", "c", "a", "l", "'">>
      [] s = "getaddrinfo ENOTFOUND ce.us-east-1.amazonaws.com" -> <<"g", "e", "t", "a", "d", "d", "r", "i", "n", "f", "o", " ", "E", "N", "O", "T", "F", "O", "U", "N", "D", " ", "c", "e", ".", "u", "s", "-", "e", "a", "s", "t", "-", "1", ".", "a", "m", "a", "z", "o", "n", "a", "w", "s", ".", "c", "o", "m">>
      [] s = "connect ECONNREFUSED 10.0.0.1:443" -> <<"c", "o", "n", "n", "e", "c", "t", " ", "E", "C", "O", "N", "N", "R", "E", "F", "U", "S", "E", "D", " ", "1", "0", ".", "0", ".", "0", ".", "1", ":", "4", "4", "3">>
      [] s = "Access Denied: invalid region" -> <<"A", "c", "c", "e", "s", "s", " ", "D", "e", "n", "i", "e", "d", ":", " ", "i", "n", "v", "a", "l", "i", "d", " ", "r", "e", "g", "i", "o", "n">>
      [] s = "Invalid region: rate exceeded" -> <<"I", "n", "v", "a", "l", "i", "d", " ", "r", "e", "g", "i", "o", "n", ":", " ", "r", "a", "t", "e", " ", "e", "x", "c", "e", "e", "d", "e", "d">>
      [] s = "Throttling: request timed out" -> <<"T", "h", "r", "o", "t", "t", "l", "i", "n", "g", ":", " ", "r", "e", "q", "u", "e", "s", "t", " ", "t", "i", "m", "e", "d", " ", "o", "u", "t">>
      [] s = "Connection timed out" -> <<"C", "o", "n", "n", "e", "c", "t", "i", "o", "n", " ", "t", "i", "m", "e", "d", " ", "o", "u", "t">>
      [] s = "permission denied: no space left on device" -> <<"p", "e", "r", "m", "i", "s", "s", "i", "o", "n", " ", "d", "e", "n", "i", "e", "d", ":", " ", "n", "o", " ", "s", "p", "a", "c", "e", " ", "l", "e", "f", "t", " ", "o", "n", " ", "d", "e", "v", "i", "c", "e">>
      [] s = "unauthorized" -> <<"u", "n", "a", "u", "t", "h", "o", "r", "i", "z", "e", "d">>
      [] s = "access denied" -> <<"a", "c", "c", "e", "s", "s", " ", "d", "e", "n", "i", "e", "d">>
      [] s = "invalid region" -> <<"i", "n", "v", "a", "l", "i", "d", " ", "r", "e", "g", "i", "o", "n">>
      [] s = "permission denied" -> <<"p", "e", "r", "m", "i", "s", "s", "i", "o", "n", " ", "d", "e", "n", "i", "e", "d">>
      [] s = "no such file" -> <<"n", "o", " ", "s", "u", "c", "h", " ", "f", "i", "l", "e">>
      [] s = "region not found" -> <<"r", "e", "g", "i", "o", "n", " ", "n", "o", "t", " ", "f", "o", "u", "n", "d">>
      [] s = "region" -> <<"r", "e", "g", "i", "o", "n">>
      [] s = "not supported" -> <<"n", "o", "t", " ", "s", "u", "p", "p", "o", "r", "t", "e", "d">>
      [] s = "throttling" -> <<"t", "h", "r", "o", "t", "t", "l", "i", "n", "g">>
      [] s = "rate exceeded" -> <<"r", "a", "t", "e", " ", "e", "x", "c", "e", "e", "d", "e", "d">>
      [] s = "quota exceeded" -> <<"q", "u", "o", "t", "a", " ", "e", "x", "c", "e", "e", "d", "e", "d">>
      [] s = "timeout" -> <<"t", "i", "m", "e", "o", "u", "t">>
      [] s = "timed out" -> <<"t", "i", "m", "e", "d", " ", "o", "u", "t">>
      [] s = "network" -> <<"n", "e", "t", "w", "o", "r", "k">>
      [] s = "connection" -> <<"c", "o", "n", "n", "e", "c", "t", "i", "o", "n">>
      [] s = "enotfound" -> <<"e", "n", "o", "t", "f", "o", "u", "n", "d">>
      [] s = "eacces" -> <<"e", "a", "c", "c", "e", "s">>
      [] s = "no space" -> <<"n", "o", " ", "s", "p", "a", "c", "e">>
      [] s = "enospc" -> <<"e", "n", "o", "s", "p", "c">>
      [] s = "enoent" -> <<"e", "n", "o", "e", "n", "t">>
      [] s = "us-east-1" -> <<"u", "s", "-", "e", "a", "s", "t", "-", "1">>
      [] s = "ap-northeast-1" -> <<"a", "p", "-", "n", "o", "r", "t", "h", "e", "a", "s", "t", "-", "1">>
      [] s = "eu-central-2" -> <<"e", "u", "-", "c", "e", "n", "t", "r", "a", "l", "-", "2">>
      [] s = "eu-west-1" -> <<"e", "u", "-", "w", "e", "s", "t", "-", "1">>
      [] s = "us-gov-east-1" -> <<"u", "s", "-", "g", "o", "v", "-", "e", "a", "s", "t", "-", "1">>
      [] s = "global" -> <<"g", "l", "o", "b", "a", "l">>
      [] s = "" -> <<>>
      [] s = " " -> <<" ">>
      [] s = " us-east-1" -> <<" ", "u", "s", "-", "e", "a", "s", "t", "-", "1">>
      [] s = "eu-west-1 " -> <<"e", "u", "-", "w", "e", "s", "t", "-", "1", " ">>
      [] s = "invalid-token" -> <<"i", "n", "v", "a", "l", "i", "d", "-", "t", "o", "k", "e", "n">>

(* The strings of the model *)
KnownStrings ==
    {"Temporary failure", "Rate exceeded", "Access Denied",
     "Request timed out", "EC2 request failed", "Lambda request failed",
     "The region invalid-region is not supported",
     "Invalid region specified",
     "You are not authorized to perform this operation.",
     "EACCES: permission denied, open '.env.local'",
     "ENOSPC: no space left on device, write",
     "EACCES: permission denied, open 'data/cost-cache.json'",
     "EACCES: permission denied, open 'data/region-discovery-cache.json'",
     "ENOENT: no such file or directory, open '.env.local'",
     "getaddrinfo ENOTFOUND ce.us-east-1.amazonaws.com",
     "connect ECONNREFUSED 10.0.0.1:443", "Access Denied: invalid region",
     "Invalid region: rate exceeded", "Throttling: request timed out",
     "Connection timed out", "permission denied: no space left on device",
     "unauthorized", "access denied", "invalid region", "permission denied",
     "no such file", "region not found", "region", "not supported",
     "throttling", "rate exceeded", "quota exceeded", "timeout", "timed out",
     "network", "connection", "enotfound", "eacces", "no space", "enospc",
     "enoent", "us-east-1", "ap-northeast-1", "eu-central-2", "eu-west-1",
     "us-gov-east-1", "global", "", " ", " us-east-1", "eu-west-1 ",
     "invalid-token"}

UpperCase == <<"A", "B", "C", "D", "E", "F", "G", "H", "I", "J", "K", "L", "M",
               "N", "O", "P", "Q", "R", "S", "T", "U", "V", "W", "X", "Y", "Z">>
LowerCase == <<"a", "b", "c", "d", "e", "f", "g", "h", "i", "j", "k", "l", "m",
               "n", "o", "p", "q", "r", "s", "t", "u", "v", "w", "x", "y", "z">>
Digits == {"0", "1", "2", "3", "4", "5", "6", "7", "8", "9"}

LowerChar(c) ==
    IF \E i \in 1..Len(UpperCase) : UpperCase[i] = c
    THEN LowerCase[CHOOSE i \in 1..Len(UpperCase) : UpperCase[i] = c]
    ELSE c

toLowerCase(cs) == [i \in 1..Len(cs) |-> LowerChar(cs[i])]

includes(cs, needle) ==
    \E i \in 0..(Len(cs) - Len(needle)) :
        \A j \in 1..Len(needle) : cs[i + j] = needle[j]

(* The string spelled by cs *)
FromChars(cs) == CHOOSE s \in KnownStrings : Chars(s) = cs

(* String.trim *)
trim(s) ==
    LET cs == Chars(s)
        inner == {i \in 1..Len(cs) : cs[i] # " "}
    IN IF inner = {} THEN ""
       ELSE IF cs[1] # " " /\ cs[Len(cs)] # " " THEN s
       ELSE LET first == CHOOSE i \in inner : \A j \in inner : i <= j
                final == CHOOSE i \in inner : \A j \in inner : j <= i
            IN FromChars(SubSeq(cs, first, final))

SeqToSet(s) == {s[i] : i \in 1..Len(s)}

(* [...new Set(xs)]: the first occurrence of every element, in order *)
Unique(xs) ==
    LET keep == {i \in 1..Len(xs) : \A j \in 1..(i - 1) : xs[j] # xs[i]}
        F[i \in 0..Len(xs)] ==
            IF i = 0 THEN <<>>
            ELSE IF i \in keep THEN Append(F[i - 1], xs[i]) ELSE F[i - 1]
    IN F[Len(xs)]

Filter(xs, Keep(_)) == SelectSeq(xs, Keep)

Max(a, b) == IF a >= b THEN a ELSE b
Min(a, b) == IF a <= b THEN a ELSE b

RECURSIVE Pow(_, _)
Pow(b, e) == IF e = 0 THEN 1 ELSE b * Pow(b, e - 1)

SeqsUpTo(S, n) == UNION {[1..k -> S] : k \in 0..n}

----------------------------------------------------------------------------
(* Region identifiers *)

IsLowerLetter(c) == \E i \in 1..Len(LowerCase) : LowerCase[i] = c

(* /^[a-z]{2,3}-[a-z]+-\d+$/ *)
regionPattern(cs) ==
    \E i \in 1..Len(cs) : \E j \in (i + 1)..Len(cs) :
        /\ cs[i] = "-"
        /\ cs[j] = "-"
        /\ i - 1 \in 2..3
        /\ \A k \in 1..(i - 1) : IsLowerLetter(cs[k])
        /\ j - i - 1 >= 1
        /\ \A k \in (i + 1)..(j - 1) : IsLowerLetter(cs[k])
        /\ Len(cs) - j >= 1
        /\ \A k \in (j + 1)..Len(cs) : cs[k] \in Digits

ConfigManagerValidRegions ==
    {"us-east-1", "us-east-2", "us-west-1", "us-west-2",
     "eu-west-1", "eu-west-2", "eu-west-3", "eu-central-1", "eu-north-1", "eu-south-1",
     "ap-northeast-1", "ap-northeast-2", "ap-northeast-3",
     "ap-southeast-1", "ap-southeast-2", "ap-south-1", "ap-east-1",
     "ca-central-1", "sa-east-1", "af-south-1", "me-south-1",
     "cn-north-1", "cn-northwest-1",
     "us-gov-east-1", "us-gov-west-1"}

RegionDetectorValidRegions ==
    {"us-east-1", "us-east-2", "us-west-1", "us-west-2",
     "eu-west-1", "eu-west-2", "eu-west-3", "eu-central-1", "eu-central-2",
     "eu-north-1", "eu-south-1", "eu-south-2",
     "ap-northeast-1", "ap-northeast-2", "ap-northeast-3",
     "ap-southeast-1", "ap-southeast-2", "ap-southeast-3", "ap-southeast-4",
     "ap-south-1", "ap-south-2", "ap-east-1",
     "ca-central-1", "ca-west-1",
     "sa-east-1",
     "af-south-1",
     "me-south-1", "me-central-1",
     "il-central-1",
     "cn-north-1", "cn-northwest-1",
     "us-gov-east-1", "us-gov-west-1"}

(* ConfigManager.isValidAWSRegion, worked out once for every string of    *)
(* the model                                                              *)
ConfigManagerValidity ==
    [region \in KnownStrings |->
        regionPattern(Chars(region)) /\ region \in ConfigManagerValidRegions]

ConfigManager_isValidAWSRegion(region) == ConfigManagerValidity[region]

(* RegionDetector.isValidAWSRegion, worked out once for every string of   *)
(* the model                                                              *)
RegionDetectorValidity ==
    [region \in KnownStrings |->
        regionPattern(Chars(region)) /\ region \in RegionDetectorValidRegions]

RegionDetector_isValidAWSRegion(region) == RegionDetectorValidity[region]

(* The raw tokens the usage query returns in this model: accepted by both  *)
(* validators, by the detector only, by neither.                           *)
RawTokens == {"us-east-1", "eu-central-2", "global"}

----------------------------------------------------------------------------
(* State *)

VARIABLES
    today,            \* the current calendar date (UTC)
    cacheFile,        \* data/region-discovery-cache.json: <<>> or <<entry>>
    cacheWritable,    \* whether a write to the cache file succeeds
    envFile,          \* .env.local: <<>> or <<lines>>
    envWritable,      \* whether a write to .env.local succeeds
    envReadable,      \* whether a read of .env.local succeeds
    processEnv,       \* process.env: key -> <<>> or <<value>>
    reqPc,            \* the discover request in flight: "idle" | "detecting"
    resp,             \* the last HTTP response of the region-discovery API
    last,             \* the last completed operation, with the state it found
    billedToday,      \* discover requests of today whose usage query was answered
    apiCalls,         \* invocations of the usage query by the latest discover request
    checksSinceSave,  \* -1, or checkTodayExecution calls since saveExecution
    rPc,              \* withRetry: "idle" | "calling" | "sleeping" | "returned" | "thrown"
    rCaller,          \* who runs withRetry: "none" | "direct" | "discover"
    rCfg,             \* retryConfig
    rAttempt,         \* the loop variable attempt
    rCalls,           \* invocations of operation() in this withRetry
    rSleeps,          \* the delays slept, in order
    rLastError,       \* lastError: <<>> or <<error>>
    rResult,          \* the value returned: <<>> or <<value>>
    rHistory,         \* the outcome of every invocation of operation(), in order
    aPc,              \* getResourcesFromAllRegions: "idle" | "running" | "done"
    aRegions,         \* its regions argument
    tasks,            \* the getResourcesFromRegion tasks started, one per region
    settleOrder,      \* task indexes in the order the tasks settled
    aResult,          \* the resources returned: <<>> or <<list>>
    extCalls,         \* inventory calls sent by the current aggregation
    invPc,            \* the inventory request in flight: "idle" | "fetching"
    invResp,          \* the last HTTP response of the inventory API
    resourceCache,    \* data/cost-cache.json, key aws_resources: <<>> or <<entry>>
    dataWritable,     \* whether a write to data/cost-cache.json succeeds
    handlers          \* discover requests handled side by side: their position and locals

cacheVars == <<today, cacheFile, cacheWritable, last, checksSinceSave>>
configVars == <<envFile, envWritable, envReadable, processEnv>>
requestVars == <<reqPc, resp, billedToday, apiCalls, handlers>>
retryVars == <<rPc, rCaller, rCfg, rAttempt, rCalls, rSleeps, rLastError, rResult, rHistory>>
inventoryVars == <<invPc, invResp, resourceCache, dataWritable>>
aggVars == <<aPc, aRegions, tasks, settleOrder, aResult, extCalls, inventoryVars>>
vars == <<cacheVars, configVars, requestVars, retryVars, aggVars>>

----------------------------------------------------------------------------
(* DiscoveryCache (src/lib/discovery-cache.ts) *)

NoFile == <<>>

(* loadCache: the parsed entry, or null (<<>>) when the file is missing *)
loadCache(file) == file

(* saveCache: writeFile of the whole entry; throws when the write fails *)
saveCache(file, cache, writable) ==
    IF writable THEN [file |-> <<cache>>, threw |-> FALSE]
    ELSE [file |-> file, threw |-> TRUE]

(* The incremented entry is returned but never written back *)
checkTodayExecutionNotPersisted(file, day, writable) ==
    LET cache == loadCache(file) IN
    IF cache # <<>> /\ cache[1].lastDiscovery = day
    THEN [file |-> file, ret |-> <<[cache[1] EXCEPT !.requestCount = @ + 1]>>]
    ELSE [file |-> file, ret |-> <<>>]

(* The date of the stored entry is not looked at *)
checkTodayExecutionAnyDay(file, day, writable) ==
    LET cache == loadCache(file) IN
    IF cache # <<>>
    THEN LET incremented == [cache[1] EXCEPT !.requestCount = @ + 1]
             saved == saveCache(file, incremented, writable)
         IN IF saved.threw
            THEN [file |-> saved.file, ret |-> <<>>]
            ELSE [file |-> saved.file, ret |-> <<incremented>>]
    ELSE [file |-> file, ret |-> <<>>]

(* The request is counted twice *)
checkTodayExecutionCountsTwice(file, day, writable) ==
    LET cache == loadCache(file) IN
    IF cache # <<>> /\ cache[1].lastDiscovery = day
    THEN LET incremented == [cache[1] EXCEPT !.requestCount = @ + 2]
             saved == saveCache(file, incremented, writable)
         IN IF saved.threw
            THEN [file |-> saved.file, ret |-> <<>>]
            ELSE [file |-> saved.file, ret |-> <<incremented>>]
    ELSE [file |-> file, ret |-> <<>>]

(* A stored entry of another day is deleted when it is found *)
checkTodayExecutionDropsStale(file, day, writable) ==
    LET cache == loadCache(file) IN
    IF cache # <<>> /\ cache[1].lastDiscovery = day
    THEN LET incremented == [cache[1] EXCEPT !.requestCount = @ + 1]
             saved == saveCache(file, incremented, writable)
         IN IF saved.threw
            THEN [file |-> saved.file, ret |-> <<>>]
            ELSE [file |-> saved.file, ret |-> <<incremented>>]
    ELSE [file |-> NoFile, ret |-> <<>>]

(* checkTodayExecution: [file |-> the cache file afterwards, ret |-> the entry or null] *)
checkTodayExecution(file, day, writable) ==
    LET cache == loadCache(file) IN
    IF cache # <<>> /\ cache[1].lastDiscovery = day
    THEN LET incremented == [cache[1] EXCEPT !.requestCount = @ + 1]
             saved == saveCache(file, incremented, writable)
         IN IF saved.threw
            THEN [file |-> saved.file, ret |-> <<>>]
            ELSE [file |-> saved.file, ret |-> <<incremented>>]
    ELSE [file |-> file, ret |-> <<>>]

(* A record of today that is already stored keeps its request count *)
saveExecutionKeepsCount(file, day, discoveredRegions, executionTime, costIncurred, writable) ==
    LET old == loadCache(file)
        cacheEntry == [lastDiscovery |-> day,
                       timestamp |-> day,
                       discoveredRegions |-> discoveredRegions,
                       executionTime |-> executionTime,
                       costIncurred |-> costIncurred,
                       requestCount |-> IF old # <<>> /\ old[1].lastDiscovery = day
                                        THEN old[1].requestCount ELSE 1]
    IN saveCache(file, cacheEntry, writable)

(* saveExecution: [file, threw] *)
saveExecution(file, day, discoveredRegions, executionTime, costIncurred, writable) ==
    LET cacheEntry == [lastDiscovery |-> day,
                       timestamp |-> day,
                       discoveredRegions |-> discoveredRegions,
                       executionTime |-> executionTime,
                       costIncurred |-> costIncurred,
                       requestCount |-> 1]
    IN saveCache(file, cacheEntry, writable)

(* getStats *)
getStats(file) ==
    LET cache == loadCache(file) IN
    IF cache = <<>>
    THEN [totalExecutions |-> 0, totalCost |-> 0, averageExecutionTime |-> 0,
          lastExecution |-> <<>>, preventedDuplicates |-> 0]
    ELSE [totalExecutions |-> 1,
          totalCost |-> cache[1].costIncurred,
          averageExecutionTime |-> cache[1].executionTime,
          lastExecution |-> <<cache[1].timestamp>>,
          preventedDuplicates |-> Max(0, cache[1].requestCount - 1)]

(* clearCache: unlink *)
clearCache(file) == NoFile

----------------------------------------------------------------------------
(* ConfigManager (src/unnamed/part_002) and getConfig (src/lib/config.ts) *)
(* A line KEY=value is [key, val]; val is the value split at its commas,   *)
(* so the empty value is <<"">>.                                           *)

AWS_REGION_KEY == "AWS_REGION"
BlankLine == [key |-> "", val |-> <<"">>]

(* Array.join(',') followed by the reading of the line's value *)
Join(regions) == IF regions = <<>> THEN <<"">> ELSE regions

(* dotenv.parse(fileContent)[key]: the last assignment of key *)
dotenvParse(lines, key) ==
    LET hits == {i \in 1..Len(lines) : lines[i].key = key} IN
    IF hits = {} THEN <<>>
    ELSE <<lines[CHOOSE i \in hits : \A j \in hits : j <= i].val>>

Truthy(v) == v # <<>> /\ v[1] # <<"">>

(* What a read of .env.local finds: a file that cannot be read is, to    *)
(* getConfig (its catch block) and to updateRegionConfig (fileContent     *)
(* stays ''), a file that is not there                                    *)
readFile(file, readable) == IF readable THEN file ELSE <<>>

(* Reads .env.local only *)
getConfigFileOnly(file, env, key) ==
    IF file # <<>> THEN dotenvParse(file[1], key) ELSE <<>>

(* getConfig(key): .env.local first, process.env as the fallback *)
getConfig(file, env, key) ==
    IF file # <<>> /\ Truthy(dotenvParse(file[1], key))
    THEN dotenvParse(file[1], key)
    ELSE env[key]

(* Takes the whole text for one region, without splitting it at commas *)
parseRegionsUnsplit(regionString) ==
    IF Len(regionString) = 1 /\ trim(regionString[1]) = "" THEN <<>>
    ELSE IF Len(regionString) > 1 THEN <<>>
    ELSE Unique(Filter(Filter(<<trim(regionString[1])>>, LAMBDA region : region # ""),
                       ConfigManager_isValidAWSRegion))

(* Keeps every region, repeated ones too *)
parseRegionsKeepsDuplicates(regionString) ==
    IF Len(regionString) = 1 /\ trim(regionString[1]) = "" THEN <<>>
    ELSE Filter(Filter([i \in 1..Len(regionString) |-> trim(regionString[i])],
                       LAMBDA region : region # ""),
                ConfigManager_isValidAWSRegion)

(* parseRegions: split, trim, drop empty, drop invalid, deduplicate.  The  *)
(* text is held as its pieces between the commas, so split(',') is the     *)
(* text itself and a text without a comma is one piece                    *)
parseRegions(regionString) ==
    IF Len(regionString) = 1 /\ trim(regionString[1]) = "" THEN <<>>
    ELSE Unique(Filter(Filter([i \in 1..Len(regionString) |-> trim(regionString[i])],
                              LAMBDA region : region # ""),
                       ConfigManager_isValidAWSRegion))

(* formatRegions *)
formatRegions(regions) ==
    Join(Unique(Filter(regions, ConfigManager_isValidAWSRegion)))

(* getRegionConfig *)
getRegionConfig(file, env) ==
    LET regionString == getConfig(file, env, AWS_REGION_KEY) IN
    IF ~Truthy(regionString) THEN <<>> ELSE parseRegions(regionString[1])

(* Writes the region line also when no region is valid *)
updateRegionConfigWritesEmpty(file, newRegions, writable) ==
    LET validRegions == Filter(newRegions, ConfigManager_isValidAWSRegion)
        lines == IF file = <<>> THEN <<BlankLine>> ELSE file[1]
        hits == {i \in 1..Len(lines) : lines[i].key = AWS_REGION_KEY}
        newRegionLine == [key |-> AWS_REGION_KEY, val |-> formatRegions(validRegions)]
        written == IF hits # {}
                   THEN [lines EXCEPT ![CHOOSE i \in hits : \A j \in hits : i <= j] = newRegionLine]
                   ELSE Append(lines, newRegionLine)
    IN IF ~writable THEN [file |-> file, ret |-> FALSE, wrote |-> FALSE, threw |-> FALSE]
       ELSE [file |-> <<written>>, ret |-> validRegions # <<>>, wrote |-> TRUE,
             threw |-> FALSE]

(* updateRegionConfig(newRegions), file being what the read of .env.local  *)
(* found: [file |-> the content written, wrote |-> whether writeFile       *)
(* succeeded, ret |-> the boolean returned, threw |-> whether the call     *)
(* rejected].  The catch block turns every failure into ret = FALSE.       *)
updateRegionConfig(file, newRegions, writable) ==
    LET validRegions == Filter(newRegions, ConfigManager_isValidAWSRegion)
        lines == IF file = <<>> THEN <<BlankLine>> ELSE file[1]
        hits == {i \in 1..Len(lines) : lines[i].key = AWS_REGION_KEY}
        newRegionLine == [key |-> AWS_REGION_KEY, val |-> formatRegions(validRegions)]
        written == IF hits # {}
                   THEN [lines EXCEPT ![CHOOSE i \in hits : \A j \in hits : i <= j] = newRegionLine]
                   ELSE Append(lines, newRegionLine)
    IN IF validRegions = <<>>
       THEN [file |-> file, ret |-> FALSE, wrote |-> FALSE, threw |-> FALSE]
       ELSE IF ~writable
       THEN [file |-> file, ret |-> FALSE, wrote |-> FALSE, threw |-> FALSE]
       ELSE [file |-> <<written>>, ret |-> TRUE, wrote |-> TRUE, threw |-> FALSE]

(* getConfigComparison *)
getConfigComparison(file, env, newRegions) ==
    LET previousRegions == getRegionConfig(file, env)
        validNewRegions == Filter(newRegions, ConfigManager_isValidAWSRegion)
    IN [previous |-> previousRegions,
        new |-> validNewRegions,
        added |-> Filter(validNewRegions, LAMBDA r : r \notin SeqToSet(previousRegions)),
        removed |-> Filter(previousRegions, LAMBDA r : r \notin SeqToSet(validNewRegions)),
        unchanged |-> Filter(previousRegions, LAMBDA r : r \in SeqToSet(validNewRegions))]

----------------------------------------------------------------------------
(* RegionDetector (src/lib/region-detector.ts) *)

(* filterRegions *)
filterRegions(regions) ==
    [validRegions |-> Unique(Filter(regions, RegionDetector_isValidAWSRegion)),
     invalidRegions |-> Unique(Filter(regions, LAMBDA r : ~RegionDetector_isValidAWSRegion(r)))]

(* the RegionDetectionResult built from the response of the usage query *)
detectionResult(allRegions, executionTime) ==
    [activeRegions |-> filterRegions(allRegions).validRegions,
     invalidRegions |-> filterRegions(allRegions).invalidRegions,
     totalFound |-> Len(allRegions),
     executionTime |-> executionTime,
     costIncurred |-> CostPerCall]

----------------------------------------------------------------------------
(* ErrorHandler.withRetry (src/lib/discovery-cache.ts) *)

DEFAULT_RETRY_CONFIG ==
    [maxRetries |-> DefaultMaxRetries,
     baseDelay |-> DefaultBaseDelay,
     maxDelay |-> DefaultMaxDelay,
     backoffMultiplier |-> DefaultBackoffMultiplier]

(* { ...DEFAULT_RETRY_CONFIG, ...config } *)
mergeRetryConfig(config) ==
    [k \in DOMAIN DEFAULT_RETRY_CONFIG |->
        IF k \in DOMAIN config THEN config[k] ELSE DEFAULT_RETRY_CONFIG[k]]

(* RegionDetector.defaultConfig.retryConfig *)
detectorRetryConfig ==
    [maxRetries |-> DetectorMaxRetries,
     baseDelay |-> DetectorBaseDelay,
     maxDelay |-> DetectorMaxDelay]

(* ErrorResponse: retryAfter is <<>> when the response carries none; the  *)
(* message is the sentence of the branch, named by its errorCode, and the *)
(* raw error.message where the sentence embeds it; the action is the      *)
(* fixed sentence of the branch, in English here                           *)
actionOf(errorCode) ==
    CASE errorCode = "COST_EXPLORER_PERMISSION_DENIED" ->
            "Add the ce:GetDimensionValues permission to the IAM user or role."
      [] errorCode = "COST_EXPLORER_RATE_LIMIT" ->
            "Wait and try again; it is usually available after one minute."
      [] errorCode = "COST_EXPLORER_TIMEOUT" ->
            "Check the network connection and try again."
      [] errorCode = "NETWORK_ERROR" ->
            "Check the internet connection and the firewall settings."
      [] errorCode = "COST_EXPLORER_UNKNOWN" ->
            "Check the AWS credentials and the network connection."
      [] errorCode = "RESOURCE_API_PERMISSION_DENIED" ->
            "Add the ReadOnlyAccess policy to the IAM user or role."
      [] errorCode = "INVALID_REGION" -> "Check the name of the AWS region."
      [] errorCode = "RESOURCE_RATE_LIMIT" -> "Wait and try again."
      [] errorCode = "RESOURCE_ERROR" ->
            "Check the AWS credentials and the region settings."
      [] errorCode = "CONFIG_FILE_PERMISSION_DENIED" ->
            "Check the permissions of the file and make it writable."
      [] errorCode = "DISK_SPACE_INSUFFICIENT" -> "Free disk space and try again."
      [] errorCode = "CONFIG_FILE_NOT_FOUND" ->
            "Create the file .env.local in the project root."
      [] errorCode = "CONFIG_ERROR" ->
            "Check that .env.local exists and check its permissions."

ErrorResponse(errorCode, recoverable, retryAfter, detail) ==
    [message |-> [template |-> errorCode, detail |-> detail],
     action |-> actionOf(errorCode),
     errorCode |-> errorCode, recoverable |-> recoverable, retryAfter |-> retryAfter]

(* handleCostExplorerError *)
handleCostExplorerError(error) ==
    LET errorMessage == toLowerCase(Chars(error.message))
        has(needle) == includes(errorMessage, Chars(needle))
    IN IF error.name = "UnauthorizedOperation" \/ has("unauthorized") \/ has("access denied")
       THEN ErrorResponse("COST_EXPLORER_PERMISSION_DENIED", TRUE, <<>>, <<>>)
       ELSE IF has("throttling") \/ has("rate exceeded") \/ has("quota exceeded")
       THEN ErrorResponse("COST_EXPLORER_RATE_LIMIT", TRUE, <<60>>, <<>>)
       ELSE IF has("timeout") \/ has("timed out")
       THEN ErrorResponse("COST_EXPLORER_TIMEOUT", TRUE, <<>>, <<>>)
       ELSE IF has("network") \/ has("connection") \/ has("enotfound")
       THEN ErrorResponse("NETWORK_ERROR", TRUE, <<>>, <<>>)
       ELSE ErrorResponse("COST_EXPLORER_UNKNOWN", TRUE, <<>>, <<error.message>>)

(* Looks for the invalid region before the missing permission *)
handleResourceErrorRegionFirst(error) ==
    LET errorMessage == toLowerCase(Chars(error.message))
        has(needle) == includes(errorMessage, Chars(needle))
    IN IF has("invalid region") \/ has("region not found")
          \/ (has("region") /\ has("not supported"))
       THEN ErrorResponse("INVALID_REGION", FALSE, <<>>, <<>>)
       ELSE IF error.name = "UnauthorizedOperation" \/ has("unauthorized")
               \/ has("access denied")
       THEN ErrorResponse("RESOURCE_API_PERMISSION_DENIED", TRUE, <<>>, <<>>)
       ELSE IF has("throttling") \/ has("rate exceeded")
       THEN ErrorResponse("RESOURCE_RATE_LIMIT", TRUE, <<30>>, <<>>)
       ELSE ErrorResponse("RESOURCE_ERROR", TRUE, <<>>, <<error.message>>)

(* No error is beyond recovery *)
handleResourceErrorAlwaysRecoverable(error) ==
    LET errorMessage == toLowerCase(Chars(error.message))
        has(needle) == includes(errorMessage, Chars(needle))
    IN IF error.name = "UnauthorizedOperation" \/ has("unauthorized") \/ has("access denied")
       THEN ErrorResponse("RESOURCE_API_PERMISSION_DENIED", TRUE, <<>>, <<>>)
       ELSE IF has("invalid region") \/ has("region not found")
               \/ (has("region") /\ has("not supported"))
       THEN ErrorResponse("INVALID_REGION", TRUE, <<>>, <<>>)
       ELSE IF has("throttling") \/ has("rate exceeded")
       THEN ErrorResponse("RESOURCE_RATE_LIMIT", TRUE, <<30>>, <<>>)
       ELSE ErrorResponse("RESOURCE_ERROR", TRUE, <<>>, <<error.message>>)

(* handleResourceError, called without a region as the routes call it *)
handleResourceError(error) ==
    LET errorMessage == toLowerCase(Chars(error.message))
        has(needle) == includes(errorMessage, Chars(needle))
    IN IF error.name = "UnauthorizedOperation" \/ has("unauthorized") \/ has("access denied")
       THEN ErrorResponse("RESOURCE_API_PERMISSION_DENIED", TRUE, <<>>, <<>>)
       ELSE IF has("invalid region") \/ has("region not found")
               \/ (has("region") /\ has("not supported"))
       THEN ErrorResponse("INVALID_REGION", FALSE, <<>>, <<>>)
       ELSE IF has("throttling") \/ has("rate exceeded")
       THEN ErrorResponse("RESOURCE_RATE_LIMIT", TRUE, <<30>>, <<>>)
       ELSE ErrorResponse("RESOURCE_ERROR", TRUE, <<>>, <<error.message>>)

(* handleConfigError *)
handleConfigError(error) ==
    LET errorMessage == toLowerCase(Chars(error.message))
        has(needle) == includes(errorMessage, Chars(needle))
    IN IF has("permission denied") \/ has("eacces")
       THEN ErrorResponse("CONFIG_FILE_PERMISSION_DENIED", TRUE, <<>>, <<>>)
       ELSE IF has("no space") \/ has("enospc")
       THEN ErrorResponse("DISK_SPACE_INSUFFICIENT", TRUE, <<>>, <<>>)
       ELSE IF has("no such file") \/ has("enoent")
       THEN ErrorResponse("CONFIG_FILE_NOT_FOUND", TRUE, <<>>, <<>>)
       ELSE ErrorResponse("CONFIG_ERROR", TRUE, <<>>, <<error.message>>)

nonRetryableErrors ==
    {"unauthorized", "access denied", "invalid region", "permission denied", "no such file"}

(* isRetryableError *)
isRetryableError(error) ==
    LET errorMessage == toLowerCase(Chars(error.message)) IN
    ~\E nonRetryable \in nonRetryableErrors : includes(errorMessage, Chars(nonRetryable))

(* Leaves maxDelay out: the exponential delay as it is *)
backoffDelayUncapped(attempt, retryConfig) ==
    retryConfig.baseDelay * Pow(retryConfig.backoffMultiplier, attempt)

(* the delay before the retry that follows the failed attempt *)
backoffDelay(attempt, retryConfig) ==
    Min(retryConfig.baseDelay * Pow(retryConfig.backoffMultiplier, attempt),
        retryConfig.maxDelay)

(* Off by one: the loop gives up one attempt early *)
afterFailureOneShort(attempt, retryConfig, error) ==
    IF attempt + 1 >= retryConfig.maxRetries THEN "throw"
    ELSE IF ~isRetryableError(error) THEN "throw"
    ELSE "sleep"

(* the catch block of the loop: break and throw lastError, or sleep and go on *)
afterFailure(attempt, retryConfig, error) ==
    IF attempt = retryConfig.maxRetries THEN "throw"
    ELSE IF ~isRetryableError(error) THEN "throw"
    ELSE "sleep"

(* The messages of the errors an operation throws in this model *)
ErrorMessages(caller) ==
    IF caller = "discover"
    THEN {"Rate exceeded", "Access Denied", "connect ECONNREFUSED 10.0.0.1:443"}
    ELSE {"Temporary failure", "Rate exceeded", "Access Denied",
          "The region invalid-region is not supported", "Invalid region specified"}

(* The errors an operation throws in this model: plain Errors with the     *)
(* messages above and, called directly, the SDK's UnauthorizedOperation    *)
ThrownErrors(caller) ==
    {[name |-> "Error", message |-> m] : m \in ErrorMessages(caller)}
    \cup IF caller = "discover" THEN {}
         ELSE {[name |-> "UnauthorizedOperation",
                message |-> "You are not authorized to perform this operation."]}

(* The DimensionValues the usage query answers with in this model: none,   *)
(* one token of each kind, a repeated token, two regions                   *)
UsageResponses ==
    {<<>>, <<"us-east-1">>, <<"eu-central-2">>, <<"global">>,
     <<"us-east-1", "global", "us-east-1">>, <<"eu-central-2", "us-east-1">>}

(* What operation() can do when it is invoked: resolve with a value or     *)
(* reject with an error                                                    *)
OperationValues(caller) ==
    IF caller = "discover" THEN UsageResponses ELSE {<<"success">>}

Outcomes(caller) ==
    {[ok |-> TRUE, value |-> v, name |-> "", message |-> ""] : v \in OperationValues(caller)}
    \cup {[ok |-> FALSE, value |-> <<>>, name |-> e.name, message |-> e.message] :
              e \in ThrownErrors(caller)}

(* The configurations withRetry is called with directly *)
DirectConfigs ==
    {[maxRetries |-> n] : n \in 0..MaxRetriesBound}
    \cup {[maxRetries |-> n, baseDelay |-> 100, maxDelay |-> 1000] : n \in 0..MaxRetriesBound}
    \cup {[maxRetries |-> n, baseDelay |-> 100, maxDelay |-> 250, backoffMultiplier |-> 3] :
              n \in 0..MaxRetriesBound}

(* withRetry is entered: retryConfig is merged and the loop starts at attempt 0 *)
withRetryEnter(caller, config) ==
    /\ rPc = "idle"
    /\ rPc' = "calling"
    /\ rCaller' = caller
    /\ rCfg' = mergeRetryConfig(config)
    /\ rAttempt' = 0
    /\ rCalls' = 0
    /\ rSleeps' = <<>>
    /\ rLastError' = <<>>
    /\ rResult' = <<>>
    /\ rHistory' = <<>>

(* withRetry has returned or thrown and its caller has taken the outcome; *)
(* its locals are gone                                                    *)
withRetryLeave ==
    /\ rPc' = "idle"
    /\ rCaller' = "none"
    /\ rCfg' = DEFAULT_RETRY_CONFIG
    /\ rAttempt' = 0
    /\ rCalls' = 0
    /\ rSleeps' = <<>>
    /\ rLastError' = <<>>
    /\ rResult' = <<>>
    /\ rHistory' = <<>>

(* withRetry(operation, config) called on its own *)
WithRetryCall ==
    \E config \in DirectConfigs :
        /\ withRetryEnter("direct", config)
        /\ UNCHANGED <<cacheVars, configVars, requestVars, aggVars>>

(* One pass of the loop body: await operation(), then return or catch *)
WithRetryAttempt ==
    \E outcome \in Outcomes(rCaller) :
        LET error == [id |-> rCalls + 1, name |-> outcome.name, message |-> outcome.message] IN
        /\ rPc = "calling"
        /\ rCalls' = rCalls + 1
        /\ rHistory' = Append(rHistory, outcome)
        /\ IF outcome.ok
           THEN /\ rPc' = "returned"
                /\ rResult' = <<outcome.value>>
                /\ UNCHANGED <<rLastError, rSleeps>>
           ELSE /\ rLastError' = <<error>>
                /\ rResult' = <<>>
                /\ IF afterFailure(rAttempt, rCfg, error) = "throw"
                   THEN /\ rPc' = "thrown"
                        /\ UNCHANGED rSleeps
                   ELSE /\ rPc' = "sleeping"
                        /\ rSleeps' = Append(rSleeps, backoffDelay(rAttempt, rCfg))
        /\ apiCalls' = IF rCaller = "discover" THEN apiCalls + 1 ELSE apiCalls
        /\ billedToday' = IF rCaller = "discover" /\ outcome.ok
                          THEN billedToday + 1 ELSE billedToday
        /\ UNCHANGED <<rCaller, rCfg, rAttempt>>
        /\ UNCHANGED <<cacheVars, configVars, reqPc, resp, handlers, aggVars>>

(* sleep(delay) is over: attempt++ and the next pass *)
WithRetryWake ==
    /\ rPc = "sleeping"
    /\ rAttempt' = rAttempt + 1
    /\ rPc' = "calling"
    /\ UNCHANGED <<rCaller, rCfg, rCalls, rSleeps, rLastError, rResult, rHistory>>
    /\ UNCHANGED <<cacheVars, configVars, requestVars, aggVars>>

(* The direct caller has the value or the error *)
WithRetryDone ==
    /\ rCaller = "direct"
    /\ rPc \in {"returned", "thrown"}
    /\ withRetryLeave
    /\ UNCHANGED <<cacheVars, configVars, requestVars, aggVars>>

----------------------------------------------------------------------------
(* The region-discovery API (src/unnamed/part_006) *)

ACCESS_KEY == "AWS_ACCESS_KEY_ID"
SECRET_KEY == "AWS_SECRET_ACCESS_KEY"

EnvKeys == {AWS_REGION_KEY, ACCESS_KEY, SECRET_KEY}

NoProcessEnv == [k \in EnvKeys |-> <<>>]
CredentialsProcessEnv ==
    [k \in EnvKeys |-> IF k = AWS_REGION_KEY THEN <<>> ELSE <<(<<"set">>)>>]

(* AWS_REGION set in the environment the server was started in *)
RegionProcessEnv ==
    [k \in EnvKeys |-> IF k = AWS_REGION_KEY THEN <<(<<"eu-west-1">>)>> ELSE <<(<<"set">>)>>]

CredentialLines ==
    <<[key |-> ACCESS_KEY, val |-> <<"set">>], [key |-> SECRET_KEY, val |-> <<"set">>]>>

(* The installations the model starts from: process.env and .env.local *)
Installations ==
    {[env |-> CredentialsProcessEnv, file |-> NoFile],
     [env |-> NoProcessEnv, file |-> <<CredentialLines>>],
     [env |-> NoProcessEnv,
      file |-> <<Append(CredentialLines,
                        [key |-> AWS_REGION_KEY, val |-> <<"ap-northeast-1">>])>>],
     [env |-> NoProcessEnv, file |-> NoFile],
     [env |-> RegionProcessEnv, file |-> NoFile],
     [env |-> NoProcessEnv,
      file |-> <<Append(CredentialLines,
                        [key |-> AWS_REGION_KEY, val |-> <<"us-east-1", "eu-west-1">>])>>],
     [env |-> NoProcessEnv,
      file |-> <<CredentialLines
                 \o <<[key |-> AWS_REGION_KEY, val |-> <<"ap-northeast-1">>],
                      [key |-> AWS_REGION_KEY, val |-> <<"eu-west-1">>]>> >>]}

NoResponse ==
    [status |-> 0, source |-> "none", discoveredRegions |-> <<>>,
     previousRegions |-> <<>>, newRegions |-> <<>>, removedRegions |-> <<>>,
     updatedConfig |-> FALSE, cost |-> 0, lastDiscovery |-> <<>>, requestCount |-> 0,
     error |-> <<>>]

NoOperation ==
    [op |-> "none", day |-> 0, preCache |-> NoFile, preEnv |-> NoFile,
     ret |-> <<>>, stats |-> getStats(NoFile),
     regions |-> <<>>, executionTime |-> 0, costIncurred |-> 0,
     candidate |-> <<>>, threw |-> FALSE]

(* the fields of the bodies the inventory API answers with *)
NoInventoryResponse ==
    [status |-> 0, source |-> "none", resources |-> <<>>, regionCount |-> 0,
     stats |-> <<>>, error |-> <<>>]

(* The discover requests that can be handled side by side *)
Handlers == {1, 2}

(* No request is being handled: nothing detected, nothing answered *)
NoHandler == [pc |-> "idle", detection |-> <<>>, comparison |-> <<>>, resp |-> NoResponse]

(* What an operation found when it started *)
Found(op) ==
    [NoOperation EXCEPT !.op = op, !.day = today, !.preCache = cacheFile,
                        !.preEnv = envFile]

Init ==
    /\ today = 1
    /\ cacheFile = NoFile
    /\ cacheWritable = TRUE
    /\ \E inst \in Installations : envFile = inst.file /\ processEnv = inst.env
    /\ envWritable = TRUE
    /\ envReadable = TRUE
    /\ reqPc = "idle"
    /\ resp = NoResponse
    /\ last = NoOperation
    /\ billedToday = 0
    /\ apiCalls = 0
    /\ checksSinceSave = -1
    /\ rPc = "idle"
    /\ rCaller = "none"
    /\ rCfg = DEFAULT_RETRY_CONFIG
    /\ rAttempt = 0
    /\ rCalls = 0
    /\ rSleeps = <<>>
    /\ rLastError = <<>>
    /\ rResult = <<>>
    /\ rHistory = <<>>
    /\ aPc = "idle"
    /\ aRegions = <<>>
    /\ tasks = <<>>
    /\ settleOrder = <<>>
    /\ aResult = <<>>
    /\ extCalls = 0
    /\ invPc = "idle"
    /\ invResp = NoInventoryResponse
    /\ resourceCache = NoFile
    /\ dataWritable = TRUE
    /\ handlers = [h \in Handlers |-> NoHandler]

(* the 400 response of handleDiscoveryRequest *)
credentialsMissingResponse ==
    [NoResponse EXCEPT !.status = 400, !.source = "credentials"]

(* the response of handleDiscoveryRequest when today's record exists *)
cachedResponse(todayExecution, currentRegions) ==
    [NoResponse EXCEPT !.status = 200, !.source = "cache",
                       !.discoveredRegions = currentRegions,
                       !.previousRegions = currentRegions,
                       !.lastDiscovery = <<todayExecution.lastDiscovery>>,
                       !.requestCount = todayExecution.requestCount]

(* The response acknowledges the update whatever came of it *)
freshResponseAlwaysAcknowledges(detection, comparison, updateSuccess, day) ==
    [NoResponse EXCEPT !.status = 200, !.source = "api",
                       !.discoveredRegions = detection.activeRegions,
                       !.previousRegions = comparison.previous,
                       !.newRegions = comparison.added,
                       !.removedRegions = comparison.removed,
                       !.updatedConfig = TRUE,
                       !.cost = detection.costIncurred,
                       !.lastDiscovery = <<day>>]

(* the response of handleDiscoveryRequest after a detection *)
freshResponse(detection, comparison, updateSuccess, day) ==
    [NoResponse EXCEPT !.status = 200, !.source = "api",
                       !.discoveredRegions = detection.activeRegions,
                       !.previousRegions = comparison.previous,
                       !.newRegions = comparison.added,
                       !.removedRegions = comparison.removed,
                       !.updatedConfig = updateSuccess,
                       !.cost = detection.costIncurred,
                       !.lastDiscovery = IF updateSuccess THEN <<day>> ELSE <<>>]

(* the 500 response of POST's catch block *)
errorResponse(error) ==
    [NoResponse EXCEPT !.status = 500, !.source = "error",
                       !.error = <<[error |-> handleCostExplorerError(error).message,
                                    recoverable |-> handleCostExplorerError(error).recoverable,
                                    errorCode |-> handleCostExplorerError(error).errorCode]>>]

(* the error of a rejected fs.writeFile in saveCache *)
DiscoveryCacheWriteError ==
    [name |-> "Error",
     message |-> "EACCES: permission denied, open 'data/region-discovery-cache.json'"]

(* the response of handleStatusRequest *)
statusResponse(currentRegions, stats) ==
    [NoResponse EXCEPT !.status = 200, !.source = "status",
                       !.discoveredRegions = currentRegions,
                       !.previousRegions = currentRegions,
                       !.lastDiscovery = stats.lastExecution]

(* POST {action: "discover"}, up to the await of the usage query: the      *)
(* credentials, the check of today's record, the cached answer             *)
DiscoverBegin ==
    LET accessKeyId == getConfig(readFile(envFile, envReadable), processEnv, ACCESS_KEY)
        secretAccessKey == getConfig(readFile(envFile, envReadable), processEnv, SECRET_KEY)
        checked == checkTodayExecution(cacheFile, today, cacheWritable)
    IN
    /\ reqPc = "idle"
    /\ rPc = "idle"
    /\ cacheFile # <<>> => cacheFile[1].requestCount < MaxRequestCount
    /\ IF ~Truthy(accessKeyId) \/ ~Truthy(secretAccessKey)
       THEN /\ resp' = credentialsMissingResponse
            /\ last' = Found("discover")
            /\ UNCHANGED <<cacheFile, reqPc, retryVars>>
       ELSE IF checked.ret # <<>>
       THEN /\ cacheFile' = checked.file
            /\ resp' = cachedResponse(checked.ret[1],
                                  getRegionConfig(readFile(envFile, envReadable), processEnv))
            /\ last' = [Found("discover") EXCEPT !.ret = checked.ret]
            /\ UNCHANGED <<reqPc, retryVars>>
       ELSE /\ billedToday < MaxBilledPerDay
            /\ cacheFile' = checked.file
            /\ reqPc' = "detecting"
            /\ resp' = NoResponse
            /\ last' = Found("discover")
            /\ withRetryEnter("discover", detectorRetryConfig)
    /\ apiCalls' = 0
    /\ UNCHANGED <<today, cacheWritable, checksSinceSave, configVars, billedToday, handlers,
                   aggVars>>

(* The rest of the discover request, once withRetry has returned or        *)
(* thrown: filter, compare, update the configuration, save the record,     *)
(* respond                                                                 *)
DiscoverFinish ==
    \E executionTime \in 0..MaxExecTime :
        LET detection == detectionResult(rResult[1], executionTime)
            discoveredRegions == detection.activeRegions
            comparison == getConfigComparison(readFile(envFile, envReadable), processEnv,
                                              discoveredRegions)
            updated == updateRegionConfig(readFile(envFile, envReadable), discoveredRegions,
                                          envWritable)
            saved == saveExecution(cacheFile, today, discoveredRegions,
                                   detection.executionTime, detection.costIncurred,
                                   cacheWritable)
        IN
        /\ reqPc = "detecting"
        /\ rCaller = "discover"
        /\ rPc \in {"returned", "thrown"}
        /\ IF rPc = "thrown"
           THEN /\ resp' = errorResponse(rLastError[1])
                /\ UNCHANGED <<cacheFile, envFile, last>>
           ELSE /\ envFile' = IF updated.wrote THEN updated.file ELSE envFile
                /\ last' = [Found("detect") EXCEPT !.ret = <<detection>>]
                /\ IF ~updated.ret
                   THEN /\ resp' = freshResponse(detection, comparison, FALSE, today)
                        /\ UNCHANGED cacheFile
                   ELSE /\ cacheFile' = saved.file
                        /\ resp' = IF saved.threw THEN errorResponse(DiscoveryCacheWriteError)
                                   ELSE freshResponse(detection, comparison, TRUE, today)
        /\ reqPc' = "idle"
        /\ withRetryLeave
        /\ UNCHANGED <<today, cacheWritable, checksSinceSave, envWritable, envReadable,
                       processEnv,
                       billedToday, apiCalls, handlers, aggVars>>

(* Counts the status request as a request of the day *)
StatusRequestCounts ==
    LET checked == checkTodayExecution(cacheFile, today, cacheWritable) IN
    /\ reqPc = "idle"
    /\ cacheFile # <<>> => cacheFile[1].requestCount < MaxRequestCount
    /\ cacheFile' = checked.file
    /\ resp' = statusResponse(getRegionConfig(readFile(envFile, envReadable), processEnv),
                               getStats(checked.file))
    /\ last' = [Found("status") EXCEPT !.stats = getStats(checked.file)]
    /\ UNCHANGED <<today, cacheWritable, checksSinceSave, configVars,
                   reqPc, billedToday, apiCalls, handlers, retryVars, aggVars>>

(* POST {action: "status"} *)
StatusRequest ==
    /\ reqPc = "idle"
    /\ resp' = statusResponse(getRegionConfig(readFile(envFile, envReadable), processEnv),
                               getStats(cacheFile))
    /\ last' = [Found("status") EXCEPT !.stats = getStats(cacheFile)]
    /\ UNCHANGED <<today, cacheFile, cacheWritable, checksSinceSave, configVars,
                   reqPc, billedToday, apiCalls, handlers, retryVars, aggVars>>

(* Midnight (UTC) passes while no request is being handled *)
NextDay ==
    /\ reqPc = "idle"
    /\ today < MaxDay
    /\ today' = today + 1
    /\ billedToday' = 0
    /\ checksSinceSave' = -1
    /\ UNCHANGED <<cacheFile, cacheWritable, last, configVars, reqPc, resp, apiCalls,
                   handlers, retryVars, aggVars>>

Next ==
    \/ DiscoverBegin
    \/ WithRetryAttempt
    \/ WithRetryWake
    \/ DiscoverFinish
    \/ StatusRequest
    \/ NextDay

Spec == Init /\ [][Next]_vars

----------------------------------------------------------------------------
(* The ConfigManager used on its own, as its tests use it *)

(* The tokens of the candidates: two that ConfigManager accepts and one    *)
(* that only the RegionDetector accepts                                    *)
CandidateTokens == {"us-east-1", "eu-west-1", "eu-central-2"}

Candidates == SeqsUpTo(CandidateTokens, MaxRegions)

(* The pieces between the commas of the texts given to parseRegions *)
Pieces == {"us-east-1", " us-east-1", "eu-west-1 ", " ", "", "invalid-token"}

RegionTexts ==
    (SeqsUpTo(Pieces, MaxPieces) \ {<<>>})
    \cup {<<"us-east-1", " ", "us-east-1", "invalid-token">>}

(* await ConfigManager.updateRegionConfig(newRegions) *)
ConfigUpdate ==
    \E newRegions \in Candidates :
        LET updated == updateRegionConfig(readFile(envFile, envReadable), newRegions,
                                          envWritable)
        IN
        /\ envFile' = IF updated.wrote THEN updated.file ELSE envFile
        /\ last' = [Found("update") EXCEPT !.candidate = newRegions,
                                           !.ret = <<updated.ret>>,
                                           !.threw = updated.threw]
        /\ UNCHANGED <<today, cacheFile, cacheWritable, checksSinceSave, envWritable,
                       envReadable, processEnv, requestVars, retryVars, aggVars>>

(* ConfigManager.getRegionConfig() *)
ConfigRead ==
    /\ last' = [Found("read") EXCEPT
                    !.ret = <<getRegionConfig(readFile(envFile, envReadable), processEnv)>>]
    /\ UNCHANGED <<today, cacheFile, cacheWritable, checksSinceSave, configVars,
                   requestVars, retryVars, aggVars>>

(* ConfigManager.getConfigComparison(newRegions) *)
ConfigCompare ==
    \E newRegions \in Candidates :
        /\ last' = [Found("compare") EXCEPT
                        !.candidate = newRegions,
                        !.ret = <<getConfigComparison(readFile(envFile, envReadable),
                                                      processEnv, newRegions)>>]
        /\ UNCHANGED <<today, cacheFile, cacheWritable, checksSinceSave, configVars,
                       requestVars, retryVars, aggVars>>

(* ConfigManager.parseRegions(regionString) *)
ConfigParse ==
    \E regionString \in RegionTexts :
        /\ last' = [Found("parse") EXCEPT !.candidate = regionString,
                                          !.ret = <<parseRegions(regionString)>>]
        /\ UNCHANGED <<today, cacheFile, cacheWritable, checksSinceSave, configVars,
                       requestVars, retryVars, aggVars>>

(* ConfigManager.formatRegions(regions) *)
ConfigFormat ==
    \E regions \in Candidates :
        /\ last' = [Found("format") EXCEPT !.candidate = regions,
                                           !.ret = <<formatRegions(regions)>>]
        /\ UNCHANGED <<today, cacheFile, cacheWritable, checksSinceSave, configVars,
                       requestVars, retryVars, aggVars>>

(* The permissions of .env.local or the free space of its disk change;   *)
(* what the last operation found is no longer what the next one finds     *)
EnvFault ==
    \E writable \in BOOLEAN, readable \in BOOLEAN :
        /\ <<writable, readable>> # <<envWritable, envReadable>>
        /\ envWritable' = writable
        /\ envReadable' = readable
        /\ last' = NoOperation
        /\ UNCHANGED <<today, cacheFile, cacheWritable, checksSinceSave, envFile,
                       processEnv, requestVars, retryVars, aggVars>>

NextConfig ==
    \/ ConfigUpdate
    \/ ConfigRead
    \/ ConfigCompare
    \/ EnvFault

SpecConfig == Init /\ [][NextConfig]_vars

(* parseRegions and formatRegions applied to the texts and the lists *)
NextParse ==
    \/ ConfigParse
    \/ ConfigFormat

SpecParse == Init /\ [][NextParse]_vars

----------------------------------------------------------------------------
(* The DiscoveryCache used on its own, as its tests use it *)

(* The arguments saveExecution is called with in this model *)
SavedRegionLists ==
    {<<>>, <<"us-east-1">>, <<"us-east-1", "eu-central-2">>, <<"us-east-1", "us-east-1">>}

(* cache.checkTodayExecution() *)
CacheCheck ==
    LET checked == checkTodayExecution(cacheFile, today, cacheWritable) IN
    /\ cacheFile # <<>> => cacheFile[1].requestCount < MaxRequestCount
    /\ cacheFile' = checked.file
    /\ last' = [Found("check") EXCEPT !.ret = checked.ret]
    /\ checksSinceSave' = IF checksSinceSave >= 0 THEN checksSinceSave + 1 ELSE -1
    /\ UNCHANGED <<today, cacheWritable, configVars, requestVars, retryVars, aggVars>>

(* cache.saveExecution(discoveredRegions, executionTime, costIncurred) *)
CacheSave ==
    \E discoveredRegions \in SavedRegionLists :
    \E executionTime \in 0..MaxExecTime :
    \E costIncurred \in {0, CostPerCall} :
        LET saved == saveExecution(cacheFile, today, discoveredRegions, executionTime,
                                   costIncurred, cacheWritable)
        IN
        /\ cacheFile' = saved.file
        /\ last' = [Found("save") EXCEPT !.regions = discoveredRegions,
                                         !.executionTime = executionTime,
                                         !.costIncurred = costIncurred]
        /\ checksSinceSave' = IF saved.threw THEN -1 ELSE 0
        /\ UNCHANGED <<today, cacheWritable, configVars, requestVars, retryVars, aggVars>>

(* cache.getStats() *)
CacheStats ==
    /\ last' = [Found("stats") EXCEPT !.stats = getStats(cacheFile)]
    /\ UNCHANGED <<today, cacheFile, cacheWritable, checksSinceSave, configVars,
                   requestVars, retryVars, aggVars>>

(* cache.clearCache() *)
CacheClear ==
    /\ cacheFile' = clearCache(cacheFile)
    /\ last' = Found("clear")
    /\ checksSinceSave' = -1
    /\ UNCHANGED <<today, cacheWritable, configVars, requestVars, retryVars, aggVars>>

NextCache ==
    \/ CacheCheck
    \/ CacheSave
    \/ CacheStats
    \/ CacheClear
    \/ NextDay

SpecCache == Init /\ [][NextCache]_vars

----------------------------------------------------------------------------
(* withRetry used on its own, as its test uses it *)

NextRetry ==
    \/ WithRetryCall
    \/ WithRetryAttempt
    \/ WithRetryWake
    \/ WithRetryDone

SpecRetry == Init /\ [][NextRetry]_vars

(* An operation that is invoked settles, a sleep ends, a caller resumes *)
SpecRetryFair ==
    /\ SpecRetry
    /\ WF_vars(WithRetryAttempt)
    /\ WF_vars(WithRetryWake)
    /\ WF_vars(WithRetryDone)

----------------------------------------------------------------------------
(* MultiRegionResourceClient (src/lib/multi-region-client.ts) *)

(* The regions of the account in this model and what the provider holds    *)
(* in each: DescribeInstances and ListFunctions answer with these          *)
AggRegions == {"us-east-1", "eu-west-1", "ap-northeast-1"}

Instances(region) ==
    CASE region = "us-east-1" ->
            <<[InstanceId |-> "i-1", State |-> "running"],
              [InstanceId |-> "i-2", State |-> "stopped"]>>
      [] region = "eu-west-1" -> <<[InstanceId |-> "i-1", State |-> "running"]>>
      [] OTHER -> <<>>

Functions(region) ==
    CASE region = "us-east-1" -> <<[FunctionName |-> "fn-a"]>>
      [] region = "ap-northeast-1" -> <<[FunctionName |-> "fn-a"], [FunctionName |-> "fn-b"]>>
      [] OTHER -> <<>>

(* The key of an instance leaves the region out *)
getEC2ResourcesKeyedByIdOnly(region) ==
    [i \in 1..Len(Instances(region)) |->
        [id |-> Instances(region)[i].InstanceId,
         type |-> "EC2",
         status |-> Instances(region)[i].State,
         region |-> region,
         crossRegionId |-> "ec2-" \o Instances(region)[i].InstanceId]]

(* getEC2Resources, when DescribeInstances answers *)
getEC2Resources(region) ==
    [i \in 1..Len(Instances(region)) |->
        [id |-> Instances(region)[i].InstanceId,
         type |-> "EC2",
         status |-> Instances(region)[i].State,
         region |-> region,
         crossRegionId |-> "ec2-" \o region \o "-" \o Instances(region)[i].InstanceId]]

(* getLambdaResources, when ListFunctions answers *)
getLambdaResources(region) ==
    [i \in 1..Len(Functions(region)) |->
        [id |-> "arn:aws:lambda:" \o region \o ":function:" \o Functions(region)[i].FunctionName,
         type |-> "Lambda",
         status |-> "Active",
         region |-> region,
         crossRegionId |-> "lambda-" \o region \o "-" \o Functions(region)[i].FunctionName]]

EC2_ERROR == "EC2 request failed"
LAMBDA_ERROR == "Lambda request failed"

(* A task as regions.map starts it: both sends are out, nothing settled *)
startedTask(region) ==
    [region |-> region, ec2 |-> "pending", lambda |-> "pending", result |-> <<>>]

(* The empty list is served by a default region *)
enterWithDefaultRegion(regions) ==
    IF Len(regions) = 0
    THEN [pc |-> "running", tasks |-> <<startedTask("us-east-1")>>, result |-> <<>>]
    ELSE [pc |-> "running",
          tasks |-> [i \in 1..Len(regions) |-> startedTask(regions[i])],
          result |-> <<>>]

(* getResourcesFromAllRegions up to its await: the early return for the    *)
(* empty list, else one task per region                                    *)
enterGetResourcesFromAllRegions(regions) ==
    IF Len(regions) = 0
    THEN [pc |-> "done", tasks |-> <<>>, result |-> <<(<<>>)>>]
    ELSE [pc |-> "running",
          tasks |-> [i \in 1..Len(regions) |-> startedTask(regions[i])],
          result |-> <<>>]

(* Keeps what the sub-fetch that answered has found when the other fails *)
settleTaskKeepsPartial(task, kind, ok) ==
    LET t == IF kind = "ec2" THEN [task EXCEPT !.ec2 = IF ok THEN "ok" ELSE "fail"]
             ELSE [task EXCEPT !.lambda = IF ok THEN "ok" ELSE "fail"]
    IN IF task.result # <<>> THEN t
       ELSE IF ~ok
       THEN [t EXCEPT !.result = <<[region |-> task.region,
                                    resources |-> IF t.ec2 = "ok"
                                                  THEN getEC2Resources(task.region)
                                                  ELSE IF t.lambda = "ok"
                                                  THEN getLambdaResources(task.region)
                                                  ELSE <<>>,
                                    error |-> <<IF kind = "ec2" THEN EC2_ERROR
                                                ELSE LAMBDA_ERROR>>]>>]
       ELSE IF t.ec2 = "ok" /\ t.lambda = "ok"
       THEN [t EXCEPT !.result = <<[region |-> task.region,
                                    resources |-> getEC2Resources(task.region)
                                                  \o getLambdaResources(task.region),
                                    error |-> <<>>]>>]
       ELSE t

(* getResourcesFromRegion after a sub-fetch has settled: Promise.all       *)
(* rejects with the first rejection and resolves when both have resolved   *)
settleTask(task, kind, ok) ==
    LET t == IF kind = "ec2" THEN [task EXCEPT !.ec2 = IF ok THEN "ok" ELSE "fail"]
             ELSE [task EXCEPT !.lambda = IF ok THEN "ok" ELSE "fail"]
    IN IF task.result # <<>> THEN t
       ELSE IF ~ok
       THEN [t EXCEPT !.result = <<[region |-> task.region, resources |-> <<>>,
                                    error |-> <<IF kind = "ec2" THEN EC2_ERROR
                                                ELSE LAMBDA_ERROR>>]>>]
       ELSE IF t.ec2 = "ok" /\ t.lambda = "ok"
       THEN [t EXCEPT !.result = <<[region |-> task.region,
                                    resources |-> getEC2Resources(task.region)
                                                  \o getLambdaResources(task.region),
                                    error |-> <<>>]>>]
       ELSE t

(* The join resumes as soon as one task has settled *)
anySettled(ts) == \E i \in 1..Len(ts) : ts[i].result # <<>>

(* Promise.allSettled resumes the caller when every task has settled *)
allSettled(ts) == \A i \in 1..Len(ts) : ts[i].result # <<>>

(* One failed region fails the whole aggregation *)
collectResourcesAllOrNothing(ts) ==
    LET F[i \in 0..Len(ts)] ==
            IF i = 0 THEN <<>> ELSE F[i - 1] \o ts[i].result[1].resources
    IN IF \E i \in 1..Len(ts) : ts[i].result[1].error # <<>> THEN <<>> ELSE F[Len(ts)]

(* The results are put in front of the list instead of at its end *)
collectResourcesPrepending(ts) ==
    LET F[i \in 0..Len(ts)] ==
            IF i = 0 THEN <<>>
            ELSE IF ts[i].result[1].error # <<>> THEN F[i - 1]
            ELSE ts[i].result[1].resources \o F[i - 1]
    IN F[Len(ts)]

(* results.forEach: the resources of the regions without error, in index  *)
(* order (a task that has no result yet has nothing to add)                *)
collectResources(ts) ==
    LET F[i \in 0..Len(ts)] ==
            IF i = 0 THEN <<>>
            ELSE IF ts[i].result = <<>> THEN F[i - 1]
            ELSE IF ts[i].result[1].error # <<>> THEN F[i - 1]
            ELSE F[i - 1] \o ts[i].result[1].resources
    IN F[Len(ts)]

(* client.getResourcesFromAllRegions(regions) is called *)
AggStart ==
    \E regions \in SeqsUpTo(AggRegions, MaxRegions) :
        LET entered == enterGetResourcesFromAllRegions(regions) IN
        /\ aPc \in {"idle", "done"}
        /\ aRegions' = regions
        /\ aPc' = entered.pc
        /\ tasks' = entered.tasks
        /\ aResult' = entered.result
        /\ settleOrder' = <<>>
        /\ extCalls' = 2 * Len(entered.tasks)
        /\ UNCHANGED <<cacheVars, configVars, requestVars, retryVars, inventoryVars>>

subFetchSettles(i, kind, ok) ==
    /\ tasks' = [tasks EXCEPT ![i] = settleTask(tasks[i], kind, ok)]
    /\ settleOrder' = IF tasks[i].result = <<>> /\ tasks'[i].result # <<>>
                      THEN Append(settleOrder, i) ELSE settleOrder
    /\ UNCHANGED <<aPc, aRegions, aResult, extCalls>>
    /\ UNCHANGED <<cacheVars, configVars, requestVars, retryVars, inventoryVars>>

(* A DescribeInstances call answers or fails *)
Ec2Settles ==
    \E i \in 1..Len(tasks) : \E ok \in BOOLEAN :
        /\ tasks[i].ec2 = "pending"
        /\ subFetchSettles(i, "ec2", ok)

(* A ListFunctions call answers or fails *)
LambdaSettles ==
    \E i \in 1..Len(tasks) : \E ok \in BOOLEAN :
        /\ tasks[i].lambda = "pending"
        /\ subFetchSettles(i, "lambda", ok)

(* The await of Promise.allSettled is over: collect and return *)
AllSettledJoin ==
    /\ aPc = "running"
    /\ allSettled(tasks)
    /\ aResult' = <<collectResources(tasks)>>
    /\ aPc' = "done"
    /\ UNCHANGED <<aRegions, tasks, settleOrder, extCalls>>
    /\ UNCHANGED <<cacheVars, configVars, requestVars, retryVars, inventoryVars>>

NextAgg ==
    \/ AggStart
    \/ Ec2Settles
    \/ LambdaSettles
    \/ AllSettledJoin

(* A constructed client: the constructor throws unless both credentials    *)
(* are configured, and the regions are an argument of the call, so the     *)
(* installation with the credentials in the environment stands for every   *)
(* installation in which a client exists                                   *)
InitAgg ==
    /\ Init
    /\ envFile = NoFile
    /\ processEnv = CredentialsProcessEnv

SpecAgg == InitAgg /\ [][NextAgg]_vars

(* Every call sent to the provider settles, and a resumed caller runs *)
SpecAggFair ==
    /\ SpecAgg
    /\ WF_vars(Ec2Settles)
    /\ WF_vars(LambdaSettles)
    /\ WF_vars(AllSettledJoin)

----------------------------------------------------------------------------
(* Properties *)

(* C1: within one calendar day the billed usage query is made by at most   *)
(* one discover request, whatever region validation and the configuration  *)
(* update come to; every later request of the day is served from the cache *)
C1_BilledQueryAtMostOncePerDay == billedToday <= 1

(* C2: after one saveExecution, the k-th checkTodayExecution of the same   *)
(* day (k >= 1) returns requestCount = k+1, the stored record then has     *)
(* requestCount = k+1, and getStats().preventedDuplicates = k              *)
C2_KthCheckCountsKPlusOne ==
    checksSinceSave >= 1 =>
        /\ cacheFile # <<>>
        /\ cacheFile[1].requestCount = checksSinceSave + 1
        /\ getStats(cacheFile).preventedDuplicates = checksSinceSave
        /\ last.op = "check" =>
              /\ last.ret # <<>>
              /\ last.ret[1].requestCount = checksSinceSave + 1
        /\ last.op = "stats" => last.stats.preventedDuplicates = checksSinceSave

C2_Witness ==
    /\ checksSinceSave = 2
    /\ last.op = "check"
    /\ last.ret # <<>>

(* C3: a discover request that finds today's record makes no external call *)
(* and leaves the region configuration as it was; all it changes on        *)
(* storage is the record's requestCount, which grows by exactly one        *)
C3_CachedDiscoverOnlyCounts ==
    (last.op = "discover" /\ resp.source = "cache") =>
        /\ apiCalls = 0
        /\ reqPc = "idle"
        /\ rPc = "idle"
        /\ envFile = last.preEnv
        /\ last.preCache # <<>>
        /\ cacheFile = <<[last.preCache[1] EXCEPT !.requestCount = @ + 1]>>

C3_Witness ==
    /\ last.op = "discover"
    /\ resp.source = "cache"
    /\ resp.requestCount = 3
    /\ envFile # <<>>

(* C4: when no record is stored, or the stored record is of another day,   *)
(* checkTodayExecution returns null and storage stays exactly as it was    *)
C4_StaleOrMissingIsAbsent ==
    (last.op = "check"
        /\ (last.preCache = <<>> \/ last.preCache[1].lastDiscovery # last.day)) =>
        /\ last.ret = <<>>
        /\ cacheFile = last.preCache

C4_Witness ==
    /\ last.op = "check"
    /\ last.preCache # <<>>
    /\ last.preCache[1].lastDiscovery # last.day
    /\ last.preCache[1].requestCount > 1
    /\ cacheFile = last.preCache

(* C5: after saveExecution(regions, t, c), whatever was stored before,     *)
(* storage holds exactly one record: of today, with requestCount 1 and     *)
(* the regions, execution time and cost given                              *)
C5_SaveOverwritesWithFreshRecord ==
    last.op = "save" =>
        cacheFile = <<[lastDiscovery |-> last.day,
                       timestamp |-> last.day,
                       discoveredRegions |-> last.regions,
                       executionTime |-> last.executionTime,
                       costIncurred |-> last.costIncurred,
                       requestCount |-> 1]>>

C5_Witness ==
    /\ last.op = "save"
    /\ last.preCache # <<>>
    /\ last.preCache[1].lastDiscovery = last.day
    /\ last.preCache[1].requestCount > 1
    /\ last.preCache[1].discoveredRegions # last.regions

----------------------------------------------------------------------------

(* The task at index i fetched both kinds *)
Succeeded(i) == tasks[i].ec2 = "ok" /\ tasks[i].lambda = "ok"

(* The task at index i failed: one of its sub-fetches was rejected *)
Failed(i) == tasks[i].ec2 = "fail" \/ tasks[i].lambda = "fail"

ItemsOf(region) == getEC2Resources(region) \o getLambdaResources(region)

CountIn(xs, Test(_)) == Cardinality({i \in 1..Len(xs) : Test(xs[i])})

(* C6: for a non-empty region list of which not every fetch fails, the     *)
(* call returns, and what it returns holds every item of every region      *)
(* fetched and no item of a fetch that failed                              *)
C6_PartialFailureTolerated ==
    (aPc = "done" /\ \E i \in 1..Len(aRegions) : Succeeded(i)) =>
        /\ aResult # <<>>
        /\ Len(tasks) = Len(aRegions)
        /\ \A i \in 1..Len(tasks) : Succeeded(i) \/ Failed(i)
        /\ \A i \in 1..Len(tasks) :
              Succeeded(i) =>
                 \A k \in 1..Len(ItemsOf(aRegions[i])) :
                    \E m \in 1..Len(aResult[1]) : aResult[1][m] = ItemsOf(aRegions[i])[k]
        /\ \A r \in AggRegions :
              CountIn(aResult[1], LAMBDA item : item.region = r)
                 = Len(ItemsOf(r)) * Cardinality({i \in 1..Len(tasks) :
                                                     aRegions[i] = r /\ Succeeded(i)})

C6_Witness ==
    /\ aPc = "done"
    /\ aRegions = <<"us-east-1", "eu-west-1">>
    /\ Succeeded(1)
    /\ Failed(2)
    /\ aResult = <<ItemsOf("us-east-1")>>

RECURSIVE ExpectedFrom(_)
ExpectedFrom(i) ==
    IF i > Len(aRegions) THEN <<>>
    ELSE (IF Succeeded(i) THEN ItemsOf(aRegions[i]) ELSE <<>>) \o ExpectedFrom(i + 1)

(* C7: the sequence returned is the concatenation, in the order of the     *)
(* input list, of the item lists of the regions fetched, each in its own   *)
(* order, whatever the order in which the tasks completed                  *)
C7_ResultInInputOrder ==
    aPc = "done" =>
        /\ aResult # <<>>
        /\ Len(tasks) = Len(aRegions)
        /\ aResult[1] = ExpectedFrom(1)

C7_Witness ==
    /\ aPc = "done"
    /\ aRegions = <<"us-east-1", "eu-west-1">>
    /\ settleOrder = <<2, 1>>
    /\ Succeeded(1)
    /\ Succeeded(2)
    /\ aResult = <<ItemsOf("us-east-1") \o ItemsOf("eu-west-1")>>

(* C8: a task is started for every input region; the call returns only     *)
(* after every task has settled; a failed task leaves the others running   *)
(* until they settle; and when every sub-fetch settles the call returns    *)
C8_AllStartedAllSettled ==
    /\ [](aPc = "running" =>
             /\ Len(tasks) = Len(aRegions)
             /\ \A i \in 1..Len(tasks) : tasks[i].region = aRegions[i]
             /\ extCalls = 2 * Len(aRegions))
    /\ [](aPc = "done" =>
             /\ Len(tasks) = Len(aRegions)
             /\ \A i \in 1..Len(tasks) : tasks[i].result # <<>>)
    /\ [][\A i \in 1..Len(tasks) :
             tasks[i].result = <<>> =>
                /\ Len(tasks') = Len(tasks)
                /\ tasks'[i] \in {tasks[i], settleTask(tasks[i], "ec2", TRUE),
                                   settleTask(tasks[i], "ec2", FALSE),
                                   settleTask(tasks[i], "lambda", TRUE),
                                   settleTask(tasks[i], "lambda", FALSE)}]_vars
    /\ (aPc = "running" ~> aPc = "done")

C8_Witness ==
    /\ aPc = "done"
    /\ Len(aRegions) = 2
    /\ settleOrder = <<1, 2>>
    /\ Failed(1)
    /\ Succeeded(2)

(* C9: called with the empty list, getResourcesFromAllRegions returns the  *)
(* empty sequence and starts no task, so no inventory call is sent         *)
C9_EmptyListNoCalls ==
    (aPc # "idle" /\ aRegions = <<>>) =>
        /\ aPc = "done"
        /\ aResult = <<(<<>>)>>
        /\ tasks = <<>>
        /\ extCalls = 0

C9_Witness ==
    /\ aPc = "done"
    /\ aRegions = <<>>
    /\ aResult = <<(<<>>)>>

----------------------------------------------------------------------------

AllFailed(h) == \A i \in 1..Len(h) : ~h[i].ok

AllFailuresRetryable(h) ==
    \A i \in 1..Len(h) : ~h[i].ok => isRetryableError([id |-> i, name |-> h[i].name, message |-> h[i].message])

(* What C10 says of a state of withRetry whose failures were all retryable *)
C10_State ==
    (rPc # "idle" /\ AllFailuresRetryable(rHistory)) =>
        /\ rCalls = Len(rHistory)
        /\ rCalls <= rCfg.maxRetries + 1
        /\ rPc \in {"calling", "sleeping"} =>
              /\ AllFailed(rHistory)
              /\ rCalls <= rCfg.maxRetries
        /\ rPc = "returned" =>
              /\ rHistory[rCalls].ok
              /\ AllFailed(SubSeq(rHistory, 1, rCalls - 1))
              /\ rResult = <<rHistory[rCalls].value>>
        /\ rPc = "thrown" =>
              /\ AllFailed(rHistory)
              /\ rCalls = rCfg.maxRetries + 1
              /\ rLastError = <<[id |-> rCalls, name |-> rHistory[rCalls].name,
                                  message |-> rHistory[rCalls].message]>>

(* C10: for maxRetries = n >= 0 and an operation whose failures are all    *)
(* retryable, withRetry invokes it until its first success or until n+1    *)
(* attempts have failed: it returns the first success, or after exactly    *)
(* n+1 failed calls it throws the last error itself; and it terminates     *)
C10_RetryUntilSuccessOrExhausted ==
    /\ []C10_State
    /\ (rPc = "calling" ~> rPc \in {"returned", "thrown"})

C10_Witness ==
    /\ rPc = "thrown"
    /\ rCfg.maxRetries = 2
    /\ rCalls = 3
    /\ AllFailuresRetryable(rHistory)
    /\ rLastError = <<[id |-> 3, name |-> "Error", message |-> "Temporary failure"]>>
----------------------------------------------------------------------------
(* The retry executor and the classifiers *)

ErrorOf(i, outcome) == [id |-> i, name |-> outcome.name, message |-> outcome.message]

(* the classifier maps the failure to InvalidRegion, recoverable = false *)
ClassifiedInvalidRegion(outcome) ==
    /\ ~outcome.ok
    /\ handleResourceError(ErrorOf(1, outcome)).errorCode = "INVALID_REGION"
    /\ ~handleResourceError(ErrorOf(1, outcome)).recoverable

(* C11: when the operation fails with an error the classifier maps to     *)
(* InvalidRegion, withRetry has called it exactly once, has slept for no   *)
(* backoff and throws that error, whatever maxRetries is                   *)
C11_InvalidRegionCalledOnce ==
    (rHistory # <<>> /\ ClassifiedInvalidRegion(rHistory[1])) =>
        /\ rPc = "thrown"
        /\ rCalls = 1
        /\ rSleeps = <<>>
        /\ rLastError = <<ErrorOf(1, rHistory[1])>>

(* every classifier marks the error recoverable *)
Recoverable(error) ==
    /\ handleCostExplorerError(error).recoverable
    /\ handleResourceError(error).recoverable
    /\ handleConfigError(error).recoverable

(* C12: withRetry gives up before its last attempt only on an error the   *)
(* classifier marks not recoverable: a recoverable failure with attempts   *)
(* remaining is followed by a sleep and another attempt                    *)
C12_RetryAgreesWithClassifier ==
    (rPc = "thrown" /\ rAttempt < rCfg.maxRetries) => ~Recoverable(rLastError[1])
----------------------------------------------------------------------------
(* ConfigManager: update, read, compare *)

NoDuplicates(xs) == \A i, j \in 1..Len(xs) : xs[i] = xs[j] => i = j

(* the tokens of a list that pass the validator, as a set *)
ValidTokens(xs) == {r \in SeqToSet(xs) : ConfigManager_isValidAWSRegion(r)}

(* what read() returns in the current state *)
ReadNow == getRegionConfig(readFile(envFile, envReadable), processEnv)

(* C13: after update(candidate) has returned true, read() returns exactly  *)
(* the valid candidate tokens, deduplicated, in first-occurrence order;    *)
(* and read() never returns an invalid token                               *)
C13_ReadReturnsWhatUpdateWrote ==
    /\ (last.op = "update" /\ last.ret = <<TRUE>> /\ envReadable) =>
          /\ SeqToSet(ReadNow) = ValidTokens(last.candidate)
          /\ NoDuplicates(ReadNow)
          /\ \A i, j \in 1..Len(ReadNow) :
                i < j => \E k, l \in 1..Len(last.candidate) :
                            /\ k < l
                            /\ last.candidate[k] = ReadNow[i]
                            /\ last.candidate[l] = ReadNow[j]
                            /\ \A n \in 1..(l - 1) : last.candidate[n] # ReadNow[j]
    /\ \A i \in 1..Len(ReadNow) : ConfigManager_isValidAWSRegion(ReadNow[i])

(* C14: update(candidate) with no valid candidate returns false, does not  *)
(* throw and leaves .env.local as it was, absent when it was absent        *)
C14_NoValidCandidateLeavesFile ==
    (last.op = "update" /\ ValidTokens(last.candidate) = {}) =>
        /\ last.ret = <<FALSE>>
        /\ ~last.threw
        /\ envFile = last.preEnv

C14_Witness ==
    /\ last.op = "update"
    /\ last.candidate = <<"eu-central-2", "eu-central-2">>
    /\ envWritable
    /\ last.preEnv = NoFile
    /\ envFile = NoFile
    /\ last.ret = <<FALSE>>

(* C15: when the write of .env.local fails during update, the call throws  *)
(* a failure to its caller instead of returning an ordinary value          *)
C15_WriteFailurePropagates ==
    (last.op = "update" /\ ValidTokens(last.candidate) # {} /\ ~envWritable) =>
        last.threw

(* the file gives read() no region value: missing, unreadable, no region   *)
(* key or an empty one                                                     *)
NoRegionInFile(file, readable) ==
    \/ file = NoFile
    \/ ~readable
    \/ ~Truthy(dotenvParse(file[1], AWS_REGION_KEY))

(* the valid regions of AWS_REGION in process.env, as a set *)
ProcessEnvRegions ==
    IF processEnv[AWS_REGION_KEY] = <<>> THEN {}
    ELSE LET pieces == processEnv[AWS_REGION_KEY][1] IN
         {r \in {trim(pieces[i]) : i \in 1..Len(pieces)} :
             r # "" /\ ConfigManager_isValidAWSRegion(r)}

C17_CompareIsSetDifference ==
    last.op = "compare" =>
        LET c == last.ret[1]
            P == SeqToSet(c.previous)
            N == ValidTokens(last.candidate)
        IN /\ P = SeqToSet(getRegionConfig(readFile(last.preEnv, envReadable), processEnv))
           /\ SeqToSet(c.new) = N
           /\ SeqToSet(c.added) = N \ P
           /\ SeqToSet(c.removed) = P \ N
           /\ SeqToSet(c.unchanged) = P \cap N
           /\ NoDuplicates(c.previous) /\ NoDuplicates(c.new) /\ NoDuplicates(c.added)
           /\ NoDuplicates(c.removed) /\ NoDuplicates(c.unchanged)
           /\ SeqToSet(c.added) \cap SeqToSet(c.unchanged) = {}
           /\ SeqToSet(c.removed) \cap SeqToSet(c.unchanged) = {}
           /\ SeqToSet(c.removed) \cup SeqToSet(c.unchanged) = P
           /\ SeqToSet(c.added) \cup SeqToSet(c.unchanged) = N
           /\ envFile = last.preEnv
----------------------------------------------------------------------------
(* parseRegions and formatRegions *)

C19_ParseFiltersOnce ==
    last.op = "parse" =>
        LET x == last.candidate
            parsed == last.ret[1]
        IN /\ SeqToSet(parsed) =
                  {r \in {trim(x[i]) : i \in 1..Len(x)} :
                      r # "" /\ ConfigManager_isValidAWSRegion(r)}
           /\ NoDuplicates(parsed)
           /\ parseRegions(formatRegions(parsed)) = parsed

C19_Witness ==
    /\ last.op = "parse"
    /\ last.candidate = <<"us-east-1", " ", "us-east-1", "invalid-token">>
    /\ last.ret = <<(<<"us-east-1">>)>>
----------------------------------------------------------------------------
(* RegionDetector.detectActiveRegions *)

(* C20: every result of detectActiveRegions has totalFound equal to the    *)
(* number of active regions plus the number of invalid regions, whatever   *)
(* tokens the usage query returned, repeated ones included                 *)
C20_TotalFoundIsSumOfPartitions ==
    last.op = "detect" =>
        last.ret[1].totalFound =
            Len(last.ret[1].activeRegions) + Len(last.ret[1].invalidRegions)

----------------------------------------------------------------------------
(* RegionDetector.validateDetectionResult (src/lib/region-detector.ts)     *)

(* The issues are named here by what they report; the code pushes a        *)
(* sentence for each, in this order.                                       *)
issuesOf(result, timeIsInvalid) ==
    (IF Len(result.activeRegions) = 0 /\ Len(result.invalidRegions) = 0
        THEN <<"no region detected">> ELSE <<>>)
    \o (IF timeIsInvalid THEN <<"execution time invalid">> ELSE <<>>)
    \o (IF result.costIncurred < 0 THEN <<"cost negative">> ELSE <<>>)
    \o (IF result.totalFound # Len(result.activeRegions) + Len(result.invalidRegions)
        THEN <<"total mismatch">> ELSE <<>>)
    \o (IF Len(result.activeRegions \o result.invalidRegions)
            # Cardinality(SeqToSet(result.activeRegions \o result.invalidRegions))
        THEN <<"duplicate regions">> ELSE <<>>)

validateDetectionResultAcceptsZeroTime(result) ==
    [isValid |-> Len(issuesOf(result, result.executionTime < 0)) = 0,
     issues |-> issuesOf(result, result.executionTime < 0)]

validateDetectionResult(result) ==
    [isValid |-> Len(issuesOf(result, result.executionTime <= 0)) = 0,
     issues |-> issuesOf(result, result.executionTime <= 0)]

(* The results handed to validateDetectionResult: those detectActiveRegions *)
(* builds and those a caller or a test writes by hand                       *)
ActivePartitions == SeqsUpTo({"us-east-1"}, MaxRegions)
InvalidPartitions == SeqsUpTo({"us-east-1", "global"}, 1)
DetectionResults ==
    [activeRegions : ActivePartitions,
     invalidRegions : InvalidPartitions,
     totalFound : 0..(MaxRegions + 1),
     executionTime : (-1)..MaxExecTime,
     costIncurred : (-CostPerCall)..CostPerCall]

ValidateDetection ==
    \E result \in DetectionResults :
        /\ last' = [Found("validate") EXCEPT !.candidate = <<result>>,
                                             !.ret = <<validateDetectionResult(result)>>]
        /\ UNCHANGED <<today, cacheFile, cacheWritable, checksSinceSave, configVars,
                       requestVars, retryVars, aggVars>>

(* The detector validates the result of a detection it made                *)
ValidateDetected ==
    \E allRegions \in SeqsUpTo(RawTokens, MaxRegions), executionTime \in 0..MaxExecTime :
        /\ last' = [Found("validate")
                      EXCEPT !.candidate = <<detectionResult(allRegions, executionTime)>>,
                             !.ret = <<validateDetectionResult(
                                          detectionResult(allRegions, executionTime))>>]
        /\ UNCHANGED <<today, cacheFile, cacheWritable, checksSinceSave, configVars,
                       requestVars, retryVars, aggVars>>

NextValidate ==
    \/ ValidateDetection
    \/ ValidateDetected

SpecValidate == Init /\ [][NextValidate]_vars

Validated == last.op = "validate"
ValidatedResult == last.candidate[1]
PartitionTotal == Len(ValidatedResult.activeRegions) + Len(ValidatedResult.invalidRegions)
NoTokenTwice == NoDuplicates(ValidatedResult.activeRegions \o ValidatedResult.invalidRegions)
IssuesFor(holds) == IF holds THEN 0 ELSE 1

(* C21 as stated: validateDetectionResult reports isValid exactly when the *)
(* total is non-zero, executionTime >= 0, cost >= 0, totalFound is the sum *)
(* of the two partitions and no token occurs twice across them.            *)
C21_ValidWithNonNegativeTime ==
    Validated =>
        (last.ret[1].isValid <=>
            /\ PartitionTotal # 0
            /\ ValidatedResult.executionTime >= 0
            /\ ValidatedResult.costIncurred >= 0
            /\ ValidatedResult.totalFound = PartitionTotal
            /\ NoTokenTwice)

(* C21 amended: validateDetectionResult reports isValid exactly when the   *)
(* two partitions are not both empty, executionTime > 0, cost >= 0,        *)
(* totalFound is the sum of the two partitions and no token occurs twice   *)
(* across them; each violated condition adds one issue.                    *)
C21_ValidWithPositiveTime ==
    Validated =>
        /\ last.ret[1].isValid <=>
            /\ PartitionTotal # 0
            /\ ValidatedResult.executionTime > 0
            /\ ValidatedResult.costIncurred >= 0
            /\ ValidatedResult.totalFound = PartitionTotal
            /\ NoTokenTwice
        /\ Len(last.ret[1].issues) =
              IssuesFor(PartitionTotal # 0)
            + IssuesFor(ValidatedResult.executionTime > 0)
            + IssuesFor(ValidatedResult.costIncurred >= 0)
            + IssuesFor(ValidatedResult.totalFound = PartitionTotal)
            + IssuesFor(NoTokenTwice)

(* a result with a token in both partitions and nothing else wrong has been *)
(* validated and rejected with one issue                                    *)
C21_Witness ==
    /\ Validated
    /\ ValidatedResult.activeRegions = <<"us-east-1">>
    /\ ValidatedResult.invalidRegions = <<"us-east-1">>
    /\ ValidatedResult.totalFound = 2
    /\ ValidatedResult.executionTime = 1
    /\ ValidatedResult.costIncurred = CostPerCall
    /\ last.ret[1] = [isValid |-> FALSE, issues |-> <<"duplicate regions">>]

----------------------------------------------------------------------------
(* The failure of the usage query *)

(* the discover request whose usage query was given up has been answered *)
DiscoverFailed == resp.status = 500 /\ last.op = "discover"

(* C22: when the usage query fails on every attempt the retry policy       *)
(* allows, detectActiveRegions ends with the error of the last attempt and *)
(* no result, and the discover request that ran it leaves .env.local and   *)
(* the stored DiscoveryRecord as it found them.                            *)
C22_FailedDetectionChangesNothing ==
    /\ (rCaller = "discover" /\ rPc = "thrown") =>
          /\ rResult = <<>>
          /\ \A i \in 1..Len(rHistory) : ~rHistory[i].ok
          /\ rLastError # <<>>
          /\ rLastError[1].message = rHistory[Len(rHistory)].message
          /\ reqPc = "detecting"
          /\ cacheFile = last.preCache
          /\ envFile = last.preEnv
    /\ DiscoverFailed =>
          /\ cacheFile = last.preCache
          /\ envFile = last.preEnv

(* every attempt the detector's policy allows has failed, and the request  *)
(* has answered with the error while a record of the day before is stored  *)
C22_Witness ==
    /\ DiscoverFailed
    /\ apiCalls = DetectorMaxRetries + 1
    /\ today = 2
    /\ cacheFile # NoFile
    /\ cacheFile[1].lastDiscovery = 1

----------------------------------------------------------------------------
(* The keys of the aggregated items *)

(* within one kind and one region the provider gives no raw id twice *)
RawIdsUniquePerKindAndRegion ==
    \A region \in AggRegions :
        /\ NoDuplicates([i \in 1..Len(Instances(region)) |-> Instances(region)[i].InstanceId])
        /\ NoDuplicates([i \in 1..Len(Functions(region)) |-> Functions(region)[i].FunctionName])

(* C23: in every result of getResourcesFromAllRegions, provided raw ids    *)
(* are unique within each kind and region, two items with the same         *)
(* crossRegionId are the same resource (same kind, region and raw id), so  *)
(* items with one raw id in different regions have different keys; when no *)
(* region is listed twice, no two positions of the result share a key.     *)
C23_CrossRegionIdInjective ==
    (aPc = "done" /\ RawIdsUniquePerKindAndRegion) =>
        \A i, j \in 1..Len(aResult[1]) :
            aResult[1][i].crossRegionId = aResult[1][j].crossRegionId =>
                /\ aResult[1][i].type = aResult[1][j].type
                /\ aResult[1][i].region = aResult[1][j].region
                /\ aResult[1][i].id = aResult[1][j].id
                /\ NoDuplicates(aRegions) => i = j

(* a result holds two instances with one raw id from two regions *)
C23_Witness ==
    /\ aPc = "done"
    /\ aRegions = <<"us-east-1", "eu-west-1">>
    /\ \E i, j \in 1..Len(aResult[1]) :
          /\ aResult[1][i].id = aResult[1][j].id
          /\ aResult[1][i].type = aResult[1][j].type
          /\ aResult[1][i].region = "us-east-1"
          /\ aResult[1][j].region = "eu-west-1"
          /\ aResult[1][i].crossRegionId # aResult[1][j].crossRegionId

----------------------------------------------------------------------------
(* The statistics and filters of MultiRegionResourceClient                 *)
(* (src/lib/multi-region-client.ts)                                        *)

NoCounts == [key \in {} |-> 0]

(* counts[key] = (counts[key] || 0) + 1 *)
Increment(counts, key) ==
    IF key \in DOMAIN counts THEN [counts EXCEPT ![key] = @ + 1]
    ELSE counts @@ (key :> 1)

(* A status that is already counted is not counted again *)
getResourceStatsStatusCountedOnce(resources) ==
    LET F[i \in 0..Len(resources)] ==
            IF i = 0
            THEN [totalCount |-> Len(resources), byRegion |-> NoCounts,
                  byType |-> NoCounts, byStatus |-> NoCounts]
            ELSE [F[i - 1] EXCEPT !.byRegion = Increment(@, resources[i].region),
                                  !.byType = Increment(@, resources[i].type),
                                  !.byStatus = IF resources[i].status \in DOMAIN @
                                               THEN @ ELSE Increment(@, resources[i].status)]
    IN F[Len(resources)]

(* getResourceStats: the forEach over the resources *)
getResourceStats(resources) ==
    LET F[i \in 0..Len(resources)] ==
            IF i = 0
            THEN [totalCount |-> Len(resources), byRegion |-> NoCounts,
                  byType |-> NoCounts, byStatus |-> NoCounts]
            ELSE [F[i - 1] EXCEPT !.byRegion = Increment(@, resources[i].region),
                                  !.byType = Increment(@, resources[i].type),
                                  !.byStatus = Increment(@, resources[i].status)]
    IN F[Len(resources)]

(* getResourcesByRegion *)
getResourcesByRegion(resources, region) ==
    SelectSeq(resources, LAMBDA resource : resource.region = region)

----------------------------------------------------------------------------
(* The cache of the inventory (src/lib/file-cache.ts), key aws_resources   *)

(* getCache: json[provider] || null *)
getCache(file) == IF file = NoFile THEN <<>> ELSE <<file[1]>>

(* setCache: [file |-> the file afterwards, threw |-> whether it threw] *)
setCache(file, data, writable) ==
    IF writable THEN [file |-> <<data>>, threw |-> FALSE]
    ELSE [file |-> file, threw |-> TRUE]

(* the error of a rejected fs.writeFile *)
CacheWriteError ==
    [name |-> "Error",
     message |-> "EACCES: permission denied, open 'data/cost-cache.json'"]

----------------------------------------------------------------------------
(* The inventory API (src/unnamed/part_005) *)

inventoryRetryConfig == [maxRetries |-> 2, baseDelay |-> 1000, maxDelay |-> 5000]

(* GET /api/aws/resources up to the await of the aggregation: the cached   *)
(* answer, the credentials, the regions                                    *)
InventoryGet ==
    \E refresh \in BOOLEAN :
        LET cachedData == getCache(resourceCache)
            accessKeyId == getConfig(readFile(envFile, envReadable), processEnv, ACCESS_KEY)
            secretAccessKey == getConfig(readFile(envFile, envReadable), processEnv,
                                         SECRET_KEY)
            configuredRegions == getRegionConfig(readFile(envFile, envReadable), processEnv)
            regions == IF Len(configuredRegions) > 0 THEN configuredRegions
                       ELSE <<"us-east-1">>
            entered == enterGetResourcesFromAllRegions(regions)
        IN
        /\ invPc = "idle"
        /\ rPc = "idle"
        /\ aPc \in {"idle", "done"}
        /\ IF ~refresh
           THEN /\ invResp' = IF cachedData # <<>>
                              THEN [cachedData[1] EXCEPT !.source = "cache"]
                              ELSE [NoInventoryResponse EXCEPT !.status = 200,
                                                               !.source = "empty_cache"]
                /\ last' = Found("inventory")
                /\ UNCHANGED <<invPc, aPc, aRegions, tasks, settleOrder, aResult, extCalls,
                               retryVars>>
           ELSE IF ~Truthy(accessKeyId) \/ ~Truthy(secretAccessKey)
           THEN /\ invResp' = [NoInventoryResponse EXCEPT !.status = 400,
                                                          !.source = "credentials"]
                /\ last' = Found("inventory")
                /\ UNCHANGED <<invPc, aPc, aRegions, tasks, settleOrder, aResult, extCalls,
                               retryVars>>
           ELSE /\ invPc' = "fetching"
                /\ invResp' = NoInventoryResponse
                /\ last' = [Found("inventory") EXCEPT !.candidate = regions]
                /\ withRetryEnter("inventory", inventoryRetryConfig)
                /\ aRegions' = regions
                /\ aPc' = entered.pc
                /\ tasks' = entered.tasks
                /\ aResult' = entered.result
                /\ settleOrder' = <<>>
                /\ extCalls' = 2 * Len(entered.tasks)
        /\ UNCHANGED <<today, cacheFile, cacheWritable, checksSinceSave, configVars,
                       requestVars, resourceCache, dataWritable>>

(* The rest of GET once getResourcesFromAllRegions has returned: the       *)
(* statistics, the cache, the response; the catch block when setCache      *)
(* throws                                                                  *)
InventoryRespond ==
    LET resources == aResult[1]
        stats == getResourceStats(resources)
        responseData == [NoInventoryResponse EXCEPT !.status = 200,
                                                    !.source = "api",
                                                    !.resources = resources,
                                                    !.regionCount = Len(aRegions),
                                                    !.stats = <<stats>>]
        saved == setCache(resourceCache, responseData, dataWritable)
        handled == handleResourceError(CacheWriteError)
    IN
    /\ invPc = "fetching"
    /\ aPc = "done"
    /\ resourceCache' = saved.file
    /\ invResp' = IF saved.threw
                  THEN [NoInventoryResponse
                          EXCEPT !.status = 500, !.source = "error",
                                 !.error = <<[error |-> handled.message,
                                              recoverable |-> handled.recoverable,
                                              errorCode |-> handled.errorCode]>>]
                  ELSE responseData
    /\ invPc' = "idle"
    /\ withRetryLeave
    /\ UNCHANGED <<aPc, aRegions, tasks, settleOrder, aResult, extCalls, dataWritable>>
    /\ UNCHANGED <<cacheVars, configVars, requestVars>>

(* The data directory becomes read-only or writable again *)
DataFault ==
    /\ dataWritable' = ~dataWritable
    /\ UNCHANGED <<invPc, invResp, resourceCache>>
    /\ UNCHANGED <<aPc, aRegions, tasks, settleOrder, aResult, extCalls>>
    /\ UNCHANGED <<cacheVars, configVars, requestVars, retryVars>>

NextInventory ==
    \/ InventoryGet
    \/ Ec2Settles
    \/ LambdaSettles
    \/ AllSettledJoin
    \/ InventoryRespond
    \/ DataFault

SpecInventory == Init /\ [][NextInventory]_vars

----------------------------------------------------------------------------
(* The inventory when every region fails *)

EveryRegionFailed == Len(tasks) > 0 /\ \A i \in 1..Len(tasks) : Failed(i)

(* the inventory request that ran the aggregation has been answered *)
InventoryAnswered ==
    /\ invPc = "idle"
    /\ last.op = "inventory"
    /\ last.candidate # <<>>
    /\ aPc = "done"

(* C24: when every region of a non-empty region list fails, the aggregator *)
(* returns the empty sequence without throwing, and the inventory request  *)
(* that called it answers with a failure, not with an empty inventory as a *)
(* success.                                                                *)
C24_AllRegionsFailedIsFailure ==
    /\ (aPc = "done" /\ EveryRegionFailed) => aResult = <<(<<>>)>>
    /\ (InventoryAnswered /\ EveryRegionFailed) => invResp.status >= 400

----------------------------------------------------------------------------
(* The statistics and the filter called on their own, as the tests call    *)
(* them                                                                    *)

(* the items the provider answers with in two of the regions *)
AllItems == SeqToSet(ItemsOf("us-east-1")) \cup SeqToSet(ItemsOf("eu-west-1"))
ItemLists == SeqsUpTo(AllItems, MaxRegions)

ResourceStats ==
    \E resources \in ItemLists :
        /\ last' = [Found("stats") EXCEPT !.candidate = resources,
                                          !.ret = <<getResourceStats(resources)>>]
        /\ UNCHANGED <<today, cacheFile, cacheWritable, checksSinceSave, configVars,
                       requestVars, retryVars, aggVars>>

ResourcesByRegion ==
    \E resources \in ItemLists, region \in AggRegions :
        /\ last' = [Found("filter") EXCEPT !.candidate = resources,
                                           !.regions = <<region>>,
                                           !.ret = <<getResourcesByRegion(resources, region)>>]
        /\ UNCHANGED <<today, cacheFile, cacheWritable, checksSinceSave, configVars,
                       requestVars, retryVars, aggVars>>

NextStats ==
    \/ ResourceStats
    \/ ResourcesByRegion

SpecStats == Init /\ [][NextStats]_vars

RECURSIVE SumOver(_, _)
SumOver(counts, keys) ==
    IF keys = {} THEN 0
    ELSE LET key == CHOOSE k \in keys : TRUE
         IN counts[key] + SumOver(counts, keys \ {key})

SumOfCounts(counts) == SumOver(counts, DOMAIN counts)

CountOf(counts, key) == IF key \in DOMAIN counts THEN counts[key] ELSE 0

(* the positions of the items of a region, and the k-th of them *)
PositionsOf(items, region) == {i \in 1..Len(items) : items[i].region = region}
KthOf(positions, k) ==
    CHOOSE i \in positions : Cardinality({j \in positions : j < i}) = k - 1

(* C25: for every sequence of items, getResourceStats gives totalCount =   *)
(* the number of items = the sum of byRegion = the sum of byType = the sum *)
(* of byStatus, and byRegion[r] is the number of items getResourcesByRegion*)
(* returns for r; getResourcesByRegion(items, r) returns exactly the items *)
(* of region r, in their original order.                                   *)
C25_StatsAndFilterAgree ==
    /\ last.op = "stats" =>
          /\ last.ret[1].totalCount = Len(last.candidate)
          /\ SumOfCounts(last.ret[1].byRegion) = Len(last.candidate)
          /\ SumOfCounts(last.ret[1].byType) = Len(last.candidate)
          /\ SumOfCounts(last.ret[1].byStatus) = Len(last.candidate)
          /\ \A region \in AggRegions :
                CountOf(last.ret[1].byRegion, region)
                    = Len(getResourcesByRegion(last.candidate, region))
    /\ last.op = "filter" =>
          LET positions == PositionsOf(last.candidate, last.regions[1]) IN
          /\ Len(last.ret[1]) = Cardinality(positions)
          /\ \A k \in 1..Len(last.ret[1]) :
                last.ret[1][k] = last.candidate[KthOf(positions, k)]

(* the statistics of two running instances with one raw id, one in each   *)
(* of two regions                                                          *)
C25_Witness ==
    /\ last.op = "stats"
    /\ Len(last.candidate) = 2
    /\ last.candidate[1].region = "us-east-1"
    /\ last.candidate[2].region = "eu-west-1"
    /\ last.candidate[1].status = "running"
    /\ last.candidate[2].status = "running"
    /\ last.ret[1].totalCount = 2
    /\ last.ret[1].byStatus["running"] = 2
    /\ last.ret[1].byRegion["us-east-1"] = 1

----------------------------------------------------------------------------
(* The three classifiers called on their own, as the tests call them *)

ClassifiedErrors ==
    ThrownErrors("direct")
    \cup {[name |-> "Error", message |-> m] :
            m \in {"Request timed out",
                   "getaddrinfo ENOTFOUND ce.us-east-1.amazonaws.com",
                   "connect ECONNREFUSED 10.0.0.1:443",
                   "EACCES: permission denied, open '.env.local'",
                   "ENOSPC: no space left on device, write",
                   "ENOENT: no such file or directory, open '.env.local'",
                   "Access Denied: invalid region", "Invalid region: rate exceeded",
                   "Throttling: request timed out", "Connection timed out",
                   "permission denied: no space left on device", ""}}

Classifiers == {"handleCostExplorerError", "handleResourceError", "handleConfigError"}

classify(classifier, error) ==
    CASE classifier = "handleCostExplorerError" -> handleCostExplorerError(error)
      [] classifier = "handleResourceError" -> handleResourceError(error)
      [] classifier = "handleConfigError" -> handleConfigError(error)

Classify ==
    \E classifier \in Classifiers, error \in ClassifiedErrors :
        /\ last' = [Found(classifier) EXCEPT !.candidate = <<error>>,
                                             !.ret = <<classify(classifier, error)>>]
        /\ UNCHANGED <<today, cacheFile, cacheWritable, checksSinceSave, configVars,
                       requestVars, retryVars, aggVars>>

(* withRetry's own test of the same error *)
ClassifyRetryable ==
    \E error \in ClassifiedErrors :
        /\ last' = [Found("isRetryableError") EXCEPT !.candidate = <<error>>,
                                                     !.ret = <<isRetryableError(error)>>]
        /\ UNCHANGED <<today, cacheFile, cacheWritable, checksSinceSave, configVars,
                       requestVars, retryVars, aggVars>>

NextClassify ==
    \/ Classify
    \/ ClassifyRetryable

SpecClassify == Init /\ [][NextClassify]_vars

PermissionDeniedCodes == {"COST_EXPLORER_PERMISSION_DENIED", "RESOURCE_API_PERMISSION_DENIED"}
RateLimitedCodes == {"COST_EXPLORER_RATE_LIMIT", "RESOURCE_RATE_LIMIT"}
ConfigStorageCodes ==
    {"CONFIG_FILE_PERMISSION_DENIED", "DISK_SPACE_INSUFFICIENT", "CONFIG_FILE_NOT_FOUND",
     "CONFIG_ERROR"}
UnclassifiedCodes == {"COST_EXPLORER_UNKNOWN", "RESOURCE_ERROR", "CONFIG_ERROR"}
RecoverableCodes ==
    PermissionDeniedCodes \cup RateLimitedCodes \cup ConfigStorageCodes
    \cup UnclassifiedCodes \cup {"COST_EXPLORER_TIMEOUT", "NETWORK_ERROR"}

(* C26: in each of the three classifiers the descriptor is not recoverable *)
(* exactly when the error is classified as an invalid region; permission   *)
(* denied, rate limited, timeout, network, every result of the classifier  *)
(* of configuration storage and every unclassified error are recoverable,  *)
(* and a rate-limited descriptor carries a retry-after value.              *)
C26_OnlyInvalidRegionIsTerminal ==
    last.op \in Classifiers =>
        /\ last.ret[1].errorCode \in RecoverableCodes \cup {"INVALID_REGION"}
        /\ ~last.ret[1].recoverable <=> last.ret[1].errorCode = "INVALID_REGION"
        /\ last.ret[1].errorCode \in RecoverableCodes => last.ret[1].recoverable
        /\ last.op = "handleConfigError" =>
              /\ last.ret[1].errorCode \in ConfigStorageCodes
              /\ last.ret[1].recoverable
        /\ last.ret[1].errorCode \in RateLimitedCodes =>
              /\ last.ret[1].retryAfter # <<>>
              /\ last.ret[1].retryAfter[1] > 0

(* the classifier of the inventory has met an error about the region and   *)
(* reported it as beyond recovery                                          *)
C26_Witness ==
    /\ last.op = "handleResourceError"
    /\ last.candidate[1].message = "The region invalid-region is not supported"
    /\ last.ret[1].errorCode = "INVALID_REGION"
    /\ ~last.ret[1].recoverable

----------------------------------------------------------------------------
(* DiscoveryCache: cleanupOldCache and validateCache                       *)
(* (src/lib/discovery-cache.ts)                                            *)

DefaultDaysToKeep == 30

(* cleanupOldCache: the entry's date, at midnight, is compared with now    *)
(* minus daysToKeep days; a failed unlink is caught and logged             *)
cleanupOldCache(file, day, daysToKeep, writable) ==
    LET cache == loadCache(file) IN
    IF cache = <<>> THEN file
    ELSE IF cache[1].lastDiscovery <= day - daysToKeep /\ writable THEN NoFile
    ELSE file

(* validateCache: a date is a day number in this model, so the tests of    *)
(* the date format and of the timestamp are tests of being one            *)
validateCacheIssues(file) ==
    LET cache == loadCache(file) IN
    IF cache = <<>> THEN <<>>
    ELSE (IF cache[1].lastDiscovery \notin Nat THEN <<"date format">> ELSE <<>>)
         \o (IF cache[1].timestamp \notin Nat THEN <<"timestamp">> ELSE <<>>)
         \o (IF cache[1].executionTime < 0 THEN <<"execution time">> ELSE <<>>)
         \o (IF cache[1].costIncurred < 0 THEN <<"cost">> ELSE <<>>)
         \o (IF cache[1].requestCount < 1 THEN <<"request count">> ELSE <<>>)

validateCache(file) ==
    [isValid |-> Len(validateCacheIssues(file)) = 0, issues |-> validateCacheIssues(file)]

(* cache.cleanupOldCache(daysToKeep) *)
CacheCleanup ==
    \E daysToKeep \in {0, 1, DefaultDaysToKeep} :
        /\ cacheFile' = cleanupOldCache(cacheFile, today, daysToKeep, cacheWritable)
        /\ last' = Found("cleanup")
        /\ checksSinceSave' = IF cacheFile' = cacheFile THEN checksSinceSave ELSE -1
        /\ UNCHANGED <<today, cacheWritable, configVars, requestVars, retryVars, aggVars>>

(* cache.validateCache() *)
CacheValidate ==
    /\ last' = [Found("validateCache") EXCEPT !.ret = <<validateCache(cacheFile)>>]
    /\ UNCHANGED <<today, cacheFile, cacheWritable, checksSinceSave, configVars,
                   requestVars, retryVars, aggVars>>

(* Every operation of the DiscoveryCache on one cache file, over the days *)
NextStore ==
    \/ NextDay
    \/ CacheCheck
    \/ CacheSave
    \/ CacheStats
    \/ CacheClear
    \/ CacheCleanup
    \/ CacheValidate

SpecStore == Init /\ [][NextStore]_vars

(* C27: in every state reachable through discover requests and the cache   *)
(* operations, the storage holds at most one DiscoveryRecord, and a stored *)
(* record has a date as its key, requestCount >= 1, non-negative execution *)
(* time and cost, and a region list without repeats whose members all pass *)
(* the detector's isValidAWSRegion; validateCache then reports isValid.    *)
C27_StoredRecordWellFormed ==
    /\ Len(cacheFile) <= 1
    /\ cacheFile # NoFile =>
          /\ cacheFile[1].lastDiscovery \in 1..today
          /\ cacheFile[1].requestCount >= 1
          /\ cacheFile[1].executionTime >= 0
          /\ cacheFile[1].costIncurred >= 0
          /\ NoDuplicates(cacheFile[1].discoveredRegions)
          /\ \A i \in 1..Len(cacheFile[1].discoveredRegions) :
                RegionDetector_isValidAWSRegion(cacheFile[1].discoveredRegions[i])
          /\ validateCache(cacheFile).isValid

----------------------------------------------------------------------------
(* The patterns of ErrorHandler.getUserFriendlyMessage                     *)
(* (src/lib/discovery-cache.ts)                                            *)

IsDigit(c) == c \in Digits
IsUpperLetter(c) == \E i \in 1..Len(UpperCase) : UpperCase[i] = c
IsWordChar(c) == IsDigit(c) \/ IsUpperLetter(c) \/ IsLowerLetter(c) \/ c = "_"

(* /AKIA[A-Z0-9]{16}/ *)
accessKeyPattern(cs) ==
    \E i \in 1..(Len(cs) - 19) :
        /\ <<cs[i], cs[i + 1], cs[i + 2], cs[i + 3]>> = <<"A", "K", "I", "A">>
        /\ \A k \in 4..19 : IsUpperLetter(cs[i + k]) \/ IsDigit(cs[i + k])

(* /[A-Za-z0-9\/+=]{40}/ *)
secretKeyPattern(cs) ==
    \E i \in 1..(Len(cs) - 39) :
        \A k \in 0..39 :
            \/ IsUpperLetter(cs[i + k]) \/ IsLowerLetter(cs[i + k]) \/ IsDigit(cs[i + k])
            \/ cs[i + k] \in {"/", "+", "="}

(* cs[from..to] is \d{1,3} *)
digitRun(cs, from, to) ==
    /\ to - from \in 0..2
    /\ to <= Len(cs)
    /\ \A k \in from..to : IsDigit(cs[k])

(* /\b(?:\d{1,3}\.){3}\d{1,3}\b/ : a, b, c are the places of the dots *)
ipAddressPattern(cs) ==
    \E i \in 1..Len(cs) : \E a \in (i + 1)..(i + 3) : \E b \in (a + 2)..(a + 4) :
    \E c \in (b + 2)..(b + 4) : \E j \in (c + 1)..(c + 3) :
        /\ j <= Len(cs)
        /\ digitRun(cs, i, a - 1) /\ cs[a] = "."
        /\ digitRun(cs, a + 1, b - 1) /\ cs[b] = "."
        /\ digitRun(cs, b + 1, c - 1) /\ cs[c] = "."
        /\ digitRun(cs, c + 1, j)
        /\ i = 1 \/ ~IsWordChar(cs[i - 1])
        /\ j = Len(cs) \/ ~IsWordChar(cs[j + 1])

(* what getUserFriendlyMessage would replace in each string of the model *)
SensitiveStrings ==
    {s \in KnownStrings : \/ accessKeyPattern(Chars(s))
                          \/ secretKeyPattern(Chars(s))
                          \/ ipAddressPattern(Chars(s))}

(* the message of an error body holds a token the patterns match *)
Unmasked(body) ==
    body # <<>> /\ \E i \in 1..Len(body[1].error.detail) :
                       body[1].error.detail[i] \in SensitiveStrings

(* C28: the message of every JSON error body of the discover and of the    *)
(* inventory operation has passed through the masking of sensitive text:   *)
(* it holds no access-key-like token, no 40-character secret-like token    *)
(* and no dotted-quad IP address of the raw provider error.                *)
C28_ErrorBodiesAreMasked ==
    /\ ~Unmasked(resp.error)
    /\ ~Unmasked(invResp.error)

----------------------------------------------------------------------------
(* The discover route while the files it writes fail *)

(* A write to the cache file or to .env.local starts or stops failing      *)
(* (permissions, free space) while a request is in flight                  *)
FileFault ==
    \E cacheCanWrite \in BOOLEAN, envCanWrite \in BOOLEAN :
        /\ reqPc = "detecting"
        /\ <<cacheCanWrite, envCanWrite>> # <<cacheWritable, envWritable>>
        /\ cacheWritable' = cacheCanWrite
        /\ envWritable' = envCanWrite
        /\ UNCHANGED <<today, cacheFile, last, checksSinceSave, envFile, envReadable,
                       processEnv, requestVars, retryVars, aggVars>>

NextFaults ==
    \/ Next
    \/ FileFault

SpecFaults == Init /\ [][NextFaults]_vars

(* the discover request that made the billed call has been answered *)
DetectionAnswered == last.op = "detect" /\ reqPc = "idle"

(* the response acknowledges success *)
Acknowledged ==
    /\ resp.status = 200
    /\ resp.source = "api"
    /\ resp.updatedConfig
    /\ resp.lastDiscovery = <<last.day>>

(* .env.local has been written by the request: its first AWS_REGION line   *)
(* holds the valid regions of the detection                                *)
ConfigPersisted ==
    /\ envFile # NoFile
    /\ \E i \in 1..Len(envFile[1]) :
          /\ envFile[1][i].key = AWS_REGION_KEY
          /\ \A j \in 1..(i - 1) : envFile[1][j].key # AWS_REGION_KEY
          /\ envFile[1][i].val # <<"">>
          /\ SeqToSet(envFile[1][i].val) = ValidTokens(last.ret[1].activeRegions)

(* the record of the detection is the stored one *)
RecordPersisted ==
    /\ cacheFile # NoFile
    /\ cacheFile[1].lastDiscovery = last.day
    /\ cacheFile[1].discoveredRegions = last.ret[1].activeRegions
    /\ cacheFile[1].executionTime = last.ret[1].executionTime
    /\ cacheFile[1].requestCount = 1

(* C29: in a discover request that makes the billed call, the configuration *)
(* is updated after the call, the record is saved after the update and only *)
(* when the update has succeeded, and the response comes last: it           *)
(* acknowledges success (updatedConfig true, lastDiscovery today) only when *)
(* both the configuration and the record have been persisted.               *)
C29_PersistThenAcknowledge ==
    /\ reqPc = "detecting" => (cacheFile = last.preCache /\ envFile = last.preEnv
                               /\ resp = NoResponse)
    /\ DetectionAnswered =>
          /\ apiCalls >= 1
          /\ cacheFile # last.preCache => (RecordPersisted /\ ConfigPersisted)
          /\ Acknowledged => (ConfigPersisted /\ RecordPersisted)
          /\ (resp.status = 200 /\ ~resp.updatedConfig) =>
                (resp.lastDiscovery = <<>> /\ cacheFile = last.preCache)

(* a detection has been acknowledged with both files written *)
C29_Witness ==
    /\ DetectionAnswered
    /\ Acknowledged
    /\ ConfigPersisted
    /\ RecordPersisted
    /\ envFile # last.preEnv
    /\ cacheFile # last.preCache

----------------------------------------------------------------------------
(* The saved record against the configuration read back *)

(* The request has made the billed call and saved today's record *)
RecordSavedNow ==
    /\ DetectionAnswered
    /\ resp.status = 200
    /\ cacheFile # NoFile
    /\ cacheFile # last.preCache
    /\ cacheFile[1].lastDiscovery = today

(* C30: after a discover request that made the billed call and saved       *)
(* today's record, the regions of the record and the regions that the      *)
(* configuration reads back are the same set                               *)
C30_RecordEqualsConfiguration ==
    RecordSavedNow =>
        SeqToSet(cacheFile[1].discoveredRegions) = SeqToSet(ReadNow)

----------------------------------------------------------------------------
(* The delays of withRetry *)

(* min(baseDelay * backoffMultiplier^i, maxDelay) for the configuration in use *)
ExpectedDelay(i) ==
    LET exponential == rCfg.baseDelay * Pow(rCfg.backoffMultiplier, i) IN
    IF exponential <= rCfg.maxDelay THEN exponential ELSE rCfg.maxDelay

(* C31: the sleep that follows the failed attempt i (from 0) lasts exactly *)
(* min(baseDelay * backoffMultiplier^i, maxDelay); the delays never        *)
(* decrease and never exceed maxDelay; every sleep follows a failed        *)
(* attempt that isRetryableError accepts and that is not the last one      *)
(* allowed, and no sleep follows a success, an error isRetryableError      *)
(* rejects, or the final failed attempt                                    *)
C31_BackoffDelays ==
    rPc # "idle" =>
        /\ \A k \in 1..Len(rSleeps) :
              /\ rSleeps[k] = ExpectedDelay(k - 1)
              /\ rSleeps[k] <= rCfg.maxDelay
              /\ k > 1 => rSleeps[k - 1] <= rSleeps[k]
              /\ ~rHistory[k].ok
              /\ isRetryableError(ErrorOf(k, rHistory[k]))
              /\ k <= rCfg.maxRetries
        /\ rPc \in {"calling", "sleeping"} => Len(rSleeps) = rCalls
        /\ rPc \in {"returned", "thrown"} => Len(rSleeps) = rCalls - 1

(* Three attempts failed with maxRetries = 2: two sleeps, the second one   *)
(* cut down to maxDelay, and none after the last failure                   *)
C31_Witness ==
    /\ rPc = "thrown"
    /\ rCfg.maxRetries = 2
    /\ rCfg.maxDelay = 250
    /\ rCalls = 3
    /\ rSleeps = <<100, 250>>

----------------------------------------------------------------------------
(* What a successful update leaves of the file *)

(* the positions of the region lines *)
RegionLines(lines) == {i \in 1..Len(lines) : lines[i].key = AWS_REGION_KEY}

(* the lines of the file the update found: a file that is not there has    *)
(* the one empty line of the empty text                                    *)
LinesBefore == IF last.preEnv = NoFile THEN <<BlankLine>> ELSE last.preEnv[1]

(* C32: a successful update changes only the region line: every other line *)
(* keeps its content and position, an existing region line is replaced in  *)
(* place, a missing one is appended; afterwards the file holds exactly one *)
(* region line, and its value is what read() returns                       *)
C32_UpdateChangesOnlyRegionLine ==
    (last.op = "update" /\ last.ret = <<TRUE>>) =>
        /\ envFile # NoFile
        /\ IF RegionLines(LinesBefore) # {}
           THEN /\ Len(envFile[1]) = Len(LinesBefore)
                /\ \E i \in RegionLines(LinesBefore) :
                      /\ envFile[1][i].key = AWS_REGION_KEY
                      /\ \A j \in 1..Len(LinesBefore) : j # i => envFile[1][j] = LinesBefore[j]
           ELSE /\ Len(envFile[1]) = Len(LinesBefore) + 1
                /\ SubSeq(envFile[1], 1, Len(LinesBefore)) = LinesBefore
                /\ envFile[1][Len(envFile[1])].key = AWS_REGION_KEY
        /\ Cardinality(RegionLines(envFile[1])) = 1
        /\ envReadable =>
              \A i \in RegionLines(envFile[1]) : parseRegions(envFile[1][i].val) = ReadNow

----------------------------------------------------------------------------
(* The outcome of one region *)

(* No task of the region r has fetched it *)
NowhereFetched(r) == \A j \in 1..Len(tasks) : aRegions[j] = r => ~Succeeded(j)

(* C33: the outcome of a region is all or nothing over its two sub-fetches: *)
(* it carries the region's items, and no error, exactly when both          *)
(* succeeded; as soon as one has failed it carries an error and no item,   *)
(* whatever the other one found, and the aggregate holds no item of a      *)
(* region fetched that way                                                 *)
C33_RegionOutcomeAllOrNothing ==
    \A i \in 1..Len(tasks) :
        /\ tasks[i].result # <<>> <=> (Succeeded(i) \/ Failed(i))
        /\ Succeeded(i) =>
              tasks[i].result = <<[region |-> aRegions[i],
                                   resources |-> ItemsOf(aRegions[i]),
                                   error |-> <<>>]>>
        /\ Failed(i) =>
              /\ tasks[i].result[1].region = aRegions[i]
              /\ tasks[i].result[1].resources = <<>>
              /\ tasks[i].result[1].error # <<>>
        /\ (aPc = "done" /\ Failed(i) /\ NowhereFetched(aRegions[i])) =>
              \A m \in 1..Len(aResult[1]) : aResult[1][m].region # aRegions[i]

(* The instances of us-east-1 were fetched, its functions were not: the    *)
(* aggregate holds the other region only                                   *)
C33_Witness ==
    /\ aPc = "done"
    /\ aRegions = <<"us-east-1", "eu-west-1">>
    /\ tasks[1].ec2 = "ok"
    /\ tasks[1].lambda = "fail"
    /\ Succeeded(2)
    /\ getEC2Resources("us-east-1") # <<>>
    /\ aResult = <<ItemsOf("eu-west-1")>>

----------------------------------------------------------------------------
(* The matchers of the three categories, in the order the claim gives them *)

Matcher(code, names, needles) == [code |-> code, names |-> names, needles |-> needles]

(* discovery-api errors *)
DiscoveryMatchers ==
    <<Matcher("COST_EXPLORER_PERMISSION_DENIED", {"UnauthorizedOperation"},
              {{"unauthorized"}, {"access denied"}}),
      Matcher("COST_EXPLORER_RATE_LIMIT", {},
              {{"throttling"}, {"rate exceeded"}, {"quota exceeded"}}),
      Matcher("COST_EXPLORER_TIMEOUT", {}, {{"timeout"}, {"timed out"}}),
      Matcher("NETWORK_ERROR", {}, {{"network"}, {"connection"}, {"enotfound"}})>>

(* inventory-api errors: permission denied, invalid region, rate limited *)
InventoryMatchers ==
    <<Matcher("RESOURCE_API_PERMISSION_DENIED", {"UnauthorizedOperation"},
              {{"unauthorized"}, {"access denied"}}),
      Matcher("INVALID_REGION", {},
              {{"invalid region"}, {"region not found"}, {"region", "not supported"}}),
      Matcher("RESOURCE_RATE_LIMIT", {}, {{"throttling"}, {"rate exceeded"}})>>

(* config-storage errors *)
ConfigMatchers ==
    <<Matcher("CONFIG_FILE_PERMISSION_DENIED", {}, {{"permission denied"}, {"eacces"}}),
      Matcher("DISK_SPACE_INSUFFICIENT", {}, {{"no space"}, {"enospc"}}),
      Matcher("CONFIG_FILE_NOT_FOUND", {}, {{"no such file"}, {"enoent"}})>>

MatchersOf(classifier) ==
    CASE classifier = "handleCostExplorerError" -> DiscoveryMatchers
      [] classifier = "handleResourceError" -> InventoryMatchers
      [] classifier = "handleConfigError" -> ConfigMatchers

GenericCodeOf(classifier) ==
    CASE classifier = "handleCostExplorerError" -> "COST_EXPLORER_UNKNOWN"
      [] classifier = "handleResourceError" -> "RESOURCE_ERROR"
      [] classifier = "handleConfigError" -> "CONFIG_ERROR"

(* the error has the name of the matcher, or its message holds, in any    *)
(* case of the letters, every needle of one of the matcher's alternatives  *)
Satisfies(error, matcher) ==
    \/ error.name \in matcher.names
    \/ \E alternative \in matcher.needles :
          \A needle \in alternative :
              includes(toLowerCase(Chars(error.message)), Chars(needle))

Satisfied(classifier, error) ==
    {k \in 1..Len(MatchersOf(classifier)) : Satisfies(error, MatchersOf(classifier)[k])}

(* the code of the earliest matcher satisfied, else the generic code *)
ExpectedCode(classifier, error) ==
    IF Satisfied(classifier, error) = {} THEN GenericCodeOf(classifier)
    ELSE MatchersOf(classifier)[CHOOSE k \in Satisfied(classifier, error) :
                                   \A m \in Satisfied(classifier, error) : k <= m].code

(* C34: every error of every category gets one descriptor, with a message  *)
(* and a remediation that are not empty; the earliest matcher of the       *)
(* category that the error satisfies decides the code (for inventory       *)
(* errors permission denied, then invalid region, then rate limited), and  *)
(* an error that satisfies none gets the generic descriptor of the         *)
(* category, whose message embeds the raw message                          *)
C34_ClassificationTotalAndOrdered ==
    last.op \in Classifiers =>
        /\ Len(last.ret) = 1
        /\ last.ret[1].message.template # ""
        /\ last.ret[1].action # ""
        /\ last.ret[1].errorCode = ExpectedCode(last.op, last.candidate[1])
        /\ last.ret[1].message.template = last.ret[1].errorCode
        /\ last.ret[1].errorCode = GenericCodeOf(last.op) =>
              last.ret[1].message.detail = <<last.candidate[1].message>>

(* An inventory error that is both a missing permission and an invalid     *)
(* region is reported as the missing permission                            *)
C34_Witness ==
    /\ last.op = "handleResourceError"
    /\ last.candidate[1].message = "Access Denied: invalid region"
    /\ Satisfied("handleResourceError", last.candidate[1]) = {1, 2}
    /\ last.ret[1].errorCode = "RESOURCE_API_PERMISSION_DENIED"

----------------------------------------------------------------------------
(* The DiscoveryCache while writes to its file fail *)

(* Writes to the cache file start or stop failing (permissions, free space) *)
CacheFault ==
    /\ cacheWritable' = ~cacheWritable
    /\ checksSinceSave' = -1
    /\ UNCHANGED <<today, cacheFile, last, configVars, requestVars, retryVars, aggVars>>

NextCacheFaults ==
    \/ CacheCheck
    \/ CacheSave
    \/ CacheClear
    \/ NextDay
    \/ CacheFault

SpecCacheFaults == Init /\ [][NextCacheFaults]_vars

(* checkTodayExecution found a readable record of the day of the call *)
TodayWasStored ==
    /\ last.op = "check"
    /\ last.preCache # NoFile
    /\ last.preCache[1].lastDiscovery = last.day

(* C35: checkTodayExecution returns absent only when no readable record of *)
(* today is stored; when one is stored it returns a record, also when the  *)
(* incremented count cannot be written, and the requestCount returned is   *)
(* the requestCount of the file afterwards                                 *)
C35_TodayRecordIsReturned ==
    last.op = "check" =>
        /\ last.ret = <<>> <=> ~TodayWasStored
        /\ last.ret # <<>> =>
              /\ cacheFile # NoFile
              /\ last.ret[1].requestCount = cacheFile[1].requestCount

----------------------------------------------------------------------------
(* The status request and the request count *)

(* A status request was answered while a record of that day was stored *)
StatusWithTodayStored ==
    /\ last.op = "status"
    /\ last.preCache # NoFile
    /\ last.preCache[1].lastDiscovery = last.day

(* C36 as stated: a status request made while a record of today is stored  *)
(* increments the requestCount of the cache                                *)
C36_StatusIncrementsCount ==
    StatusWithTodayStored =>
        /\ cacheFile # NoFile
        /\ cacheFile[1].requestCount = last.preCache[1].requestCount + 1

(* C36: a status request made while a record of today is stored does not   *)
(* increment the requestCount of the cache: it reads the record for its    *)
(* statistics and leaves the cache file as it was                          *)
C36_StatusLeavesCount ==
    StatusWithTodayStored =>
        /\ cacheFile # NoFile
        /\ cacheFile[1].requestCount = last.preCache[1].requestCount
        /\ cacheFile = last.preCache

(* The status request has answered with the day of the stored record *)
C36_Witness ==
    /\ StatusWithTodayStored
    /\ resp.status = 200
    /\ resp.source = "status"
    /\ resp.lastDiscovery = <<last.day>>
    /\ cacheFile[1].requestCount >= 1

----------------------------------------------------------------------------
(* Two discover requests handled side by side (src/unnamed/part_006):      *)
(* each await of handleDiscoveryRequest is a point where the other         *)
(* request can run                                                         *)

(* handleDiscoveryRequest up to the await of the detection: the            *)
(* credentials, the check of today's record, the cached answer             *)
HandlerCheck(h) ==
    LET accessKeyId == getConfig(readFile(envFile, envReadable), processEnv, ACCESS_KEY)
        secretAccessKey == getConfig(readFile(envFile, envReadable), processEnv, SECRET_KEY)
        checked == checkTodayExecution(cacheFile, today, cacheWritable)
    IN
    /\ handlers[h].pc = "idle"
    /\ cacheFile # <<>> => cacheFile[1].requestCount < MaxRequestCount
    /\ IF ~Truthy(accessKeyId) \/ ~Truthy(secretAccessKey)
       THEN /\ handlers' = [handlers EXCEPT ![h] =
                               [NoHandler EXCEPT !.resp = credentialsMissingResponse]]
            /\ UNCHANGED cacheFile
       ELSE IF checked.ret # <<>>
       THEN /\ cacheFile' = checked.file
            /\ handlers' = [handlers EXCEPT ![h] =
                               [NoHandler EXCEPT !.resp =
                                   cachedResponse(checked.ret[1],
                                                  getRegionConfig(readFile(envFile, envReadable),
                                                                  processEnv))]]
       ELSE /\ billedToday < MaxBilledPerDay
            /\ cacheFile' = checked.file
            /\ handlers' = [handlers EXCEPT ![h] = [NoHandler EXCEPT !.pc = "detecting"]]
    /\ UNCHANGED <<today, cacheWritable, last, checksSinceSave, configVars, reqPc, resp,
                   billedToday, apiCalls, retryVars, aggVars>>

(* detectActiveRegions has settled: the billed usage query was answered,   *)
(* or it failed for good; then the comparison with the configuration       *)
HandlerDetected(h) ==
    \E outcome \in Outcomes("discover") :
        LET detection == detectionResult(outcome.value, MaxExecTime)
            comparison == getConfigComparison(readFile(envFile, envReadable), processEnv,
                                              detection.activeRegions)
        IN
        /\ handlers[h].pc = "detecting"
        /\ IF outcome.ok
           THEN /\ handlers' = [handlers EXCEPT ![h].pc = "updating",
                                                ![h].detection = <<detection>>,
                                                ![h].comparison = <<comparison>>]
                /\ billedToday' = billedToday + 1
           ELSE /\ handlers' = [handlers EXCEPT ![h] =
                                   [NoHandler EXCEPT !.resp =
                                       errorResponse([name |-> outcome.name,
                                                      message |-> outcome.message])]]
                /\ UNCHANGED billedToday
        /\ UNCHANGED <<cacheVars, configVars, reqPc, resp, apiCalls, retryVars, aggVars>>

(* updateRegionConfig has settled *)
HandlerUpdated(h) ==
    LET detection == handlers[h].detection[1]
        updated == updateRegionConfig(readFile(envFile, envReadable), detection.activeRegions,
                                      envWritable)
    IN
    /\ handlers[h].pc = "updating"
    /\ envFile' = IF updated.wrote THEN updated.file ELSE envFile
    /\ handlers' = IF updated.ret
                   THEN [handlers EXCEPT ![h].pc = "saving"]
                   ELSE [handlers EXCEPT ![h] =
                            [NoHandler EXCEPT !.resp =
                                freshResponse(detection, handlers[h].comparison[1],
                                              FALSE, today)]]
    /\ UNCHANGED <<cacheVars, envWritable, envReadable, processEnv, reqPc, resp, billedToday,
                   apiCalls, retryVars, aggVars>>

(* saveExecution has settled: the response *)
HandlerSaved(h) ==
    LET detection == handlers[h].detection[1]
        saved == saveExecution(cacheFile, today, detection.activeRegions,
                               detection.executionTime, detection.costIncurred,
                               cacheWritable)
    IN
    /\ handlers[h].pc = "saving"
    /\ cacheFile' = saved.file
    /\ handlers' = [handlers EXCEPT ![h] =
                       [NoHandler EXCEPT !.resp =
                           IF saved.threw THEN errorResponse(DiscoveryCacheWriteError)
                           ELSE freshResponse(detection, handlers[h].comparison[1],
                                              TRUE, today)]]
    /\ UNCHANGED <<today, cacheWritable, last, checksSinceSave, configVars, reqPc, resp,
                   billedToday, apiCalls, retryVars, aggVars>>

NextHandlers ==
    \/ \E h \in Handlers : HandlerCheck(h)
    \/ \E h \in Handlers : HandlerDetected(h)
    \/ \E h \in Handlers : HandlerUpdated(h)
    \/ \E h \in Handlers : HandlerSaved(h)
    \/ NextDay

SpecHandlers == Init /\ [][NextHandlers]_vars

(* The request is between its check of the cache and its save *)
InCycle(h) == handlers[h].pc \in {"detecting", "updating", "saving"}

(* The request has made the billed call and has not answered yet *)
MadeBilledCall(h) == handlers[h].pc \in {"updating", "saving"}

(* C37: at most one discovery cycle runs at a time: two discover requests  *)
(* are never both between their check of the cache and their save, so      *)
(* each file has one writer at a time, and two requests that arrive        *)
(* together do not both make the billed call                               *)
C37_OneDiscoveryCycleAtATime ==
    \A g, h \in Handlers :
        g # h =>
            /\ ~(InCycle(g) /\ InCycle(h))
            /\ ~(MadeBilledCall(g) /\ MadeBilledCall(h))


====
